---- MODULE Spec2Model ----
(***************************************************************************)
(* The drupal_editor client: two backends (TerminusAuth, PlaywrightAuth),  *)
(* the editors (NodeEditor, TaxonomyManager, MediaEditor) and the          *)
(* ChangeLog they write to.                                                *)
(*                                                                         *)
(* Python str values are sequences of pieces (a piece is a character of a  *)
(* field text or a literal fragment of a message), "" is <<>> and an       *)
(* f-string is the concatenation of its parts.  The Drupal site, the       *)
(* terminus CLI and the browser are the environment: every answer they     *)
(* give is an input of the action that asks for it.                        *)
(***************************************************************************)
EXTENDS Integers, Sequences, FiniteSets, TLC

VARIABLES
    backend,        \* type of client.auth: "terminus" or "playwright"
    machine_token,  \* TerminusAuth.machine_token: "none", "valid" or "invalid"
    session,        \* the terminus CLI holds a login session on this machine
    authenticated,  \* auth._authenticated
    browser,        \* PlaywrightAuth._browser (0 is None)
    page,           \* PlaywrightAuth._page (0 is None)
    launched,       \* browsers launched so far (handles are 1..launched)
    open,           \* launched browsers that are still open
    site,           \* content of the Drupal site: [tags, vid, body]
    records,        \* ChangeLog.records
    call,           \* the last invocation: operation, arguments, the CLI's answer
    result,         \* what it returned (or the exception it raised)
    trace,          \* the backend commands it issued, in order
    pre,            \* log length and site content when it started
    ncalls,         \* invocations so far
    pc,             \* where each concurrent caller's coroutine is suspended
    held,           \* the page each concurrent caller took from auth.page (0: none)
    environ,        \* os.environ of the process: variable name -> value or None
    running         \* subprocesses spawned by _run_command that have not ended

vars == <<backend, machine_token, session, authenticated, browser, page, launched,
          open, site, records, call, result, trace, pre, ncalls, pc, held, environ,
          running>>

----------------------------------------------------------------------------
(* Bounds *)

MaxCalls == 2
NumCallers == 2

----------------------------------------------------------------------------
(* Python values *)

\* Optional[str] = None
None == <<"<None>">>

\* Optional[int] = None
NoneInt == -1

\* truthiness of an Optional[str]
Truthy(s) == s # None /\ s # <<>>

\* str(n), f"{n}"
Str(n) == <<ToString(n)>>

\* `find in s`
Contains(s, find) ==
    \E i \in 0..(Len(s) - Len(find)) : SubSeq(s, i + 1, i + Len(find)) = find

\* s.replace(find, repl): every non-overlapping occurrence, left to right
RECURSIVE Replace(_, _, _)
Replace(s, find, repl) ==
    IF find = <<>>
    THEN IF s = <<>> THEN repl
         ELSE repl \o <<Head(s)>> \o Replace(Tail(s), find, repl)
    ELSE IF Len(s) < Len(find) THEN s
    ELSE IF SubSeq(s, 1, Len(find)) = find
         THEN repl \o Replace(SubSeq(s, Len(find) + 1, Len(s)), find, repl)
         ELSE <<Head(s)>> \o Replace(Tail(s), find, repl)

\* [x for x in xs if x != v]
RECURSIVE Without(_, _)
Without(xs, v) ==
    IF xs = <<>> THEN <<>>
    ELSE IF Head(xs) = v THEN Without(Tail(xs), v)
    ELSE <<Head(xs)>> \o Without(Tail(xs), v)

\* PHP array_map(fn($t) => $t == old ? new : $t, xs)
MapReplace(xs, old, new) ==
    [i \in 1..Len(xs) |-> IF xs[i] = old THEN new ELSE xs[i]]

\* PHP array_values(array_unique(xs)): first occurrences, in order
RECURSIVE Unique(_)
Unique(xs) ==
    IF xs = <<>> THEN <<>>
    ELSE <<Head(xs)>> \o Unique(Without(Tail(xs), Head(xs)))

InSeq(v, xs) == \E i \in 1..Len(xs) : xs[i] = v

----------------------------------------------------------------------------
(* tracking/changelog.py *)

PreviewLen == 100

ChangeRecord(auth_method, operation, target, field, old_value, new_value, reason, revision_id, revision_url, screenshot_path, success, error) ==
    [auth_method |-> auth_method, operation |-> operation, target |-> target,
     field |-> field, old_value |-> old_value, new_value |-> new_value,
     reason |-> reason, revision_id |-> revision_id,
     revision_url |-> revision_url, screenshot_path |-> screenshot_path,
     success |-> success, error |-> error]

\* a record that puts the new record in front
record_at_front(log, change) == <<change>> \o log

\* ChangeLog.record: append the new record
record(log, change) == Append(log, change)

\* the preview of to_dict
Preview(v) == IF Len(v) > PreviewLen THEN SubSeq(v, 1, PreviewLen) \o <<"...">> ELSE v

to_dict(r) ==
    [r EXCEPT !.old_value = Preview(r.old_value), !.new_value = Preview(r.new_value)]

\* a get_successful that takes a record for successful by its revision id
get_successful_by_revision(log) ==
    SelectSeq(log, LAMBDA r : r.success /\ r.revision_id # NoneInt)

get_successful(log) == SelectSeq(log, LAMBDA r : r.success)

get_failed(log) == SelectSeq(log, LAMBDA r : ~r.success)

to_json(log) ==
    [total_changes |-> Len(log),
     successful |-> Len(get_successful(log)),
     failed |-> Len(get_failed(log)),
     records |-> [i \in 1..Len(log) |-> to_dict(log[i])]]

\* ChangeLog.save: the text written to the file
save(log) == [type |-> "None", written |-> to_json(log)]

----------------------------------------------------------------------------
(* JSON as the scripts print it and json.loads reads it: an object is the
   piece sequence "{", k1, v1, ..., kn, vn, "}" *)

JsonObject(pairs) ==
    LET RECURSIVE Flat(_)
        Flat(ps) == IF ps = <<>> THEN <<>>
                    ELSE <<Head(ps)[1], Head(ps)[2]>> \o Flat(Tail(ps))
    IN <<"{">> \o Flat(pairs) \o <<"}">>

\* str.strip(): leading and trailing whitespace pieces removed
RECURSIVE Strip(_)
Strip(s) ==
    IF s = <<>> THEN s
    ELSE IF Head(s) = "\n" THEN Strip(Tail(s))
    ELSE IF s[Len(s)] = "\n" THEN Strip(SubSeq(s, 1, Len(s) - 1))
    ELSE s

\* json.loads: "object", "null", "array" or "invalid" (JSONDecodeError)
JsonKind(s) ==
    IF Len(s) >= 2 /\ s[1] = "{" /\ s[Len(s)] = "}" /\ Len(s) % 2 = 0 THEN "object"
    ELSE IF s = <<"null">> THEN "null"
    ELSE IF s = <<"[", "]">> THEN "array"
    ELSE "invalid"

\* key in response
JsonHas(s, key) == \E i \in 1..((Len(s) - 2) \div 2) : s[2 * i] = key

\* response[key]
JsonGet(s, key) ==
    s[2 * (CHOOSE i \in 1..((Len(s) - 2) \div 2) : s[2 * i] = key) + 1]

\* the integer a JSON number piece stands for
JsonInt(v) == CHOOSE n \in 0..(MaxCalls + 2) : ToString(n) = v

----------------------------------------------------------------------------
(* tracking/summary.py: a report is the sequence of its lines; a line is a
   heading, the header with the counts, or a row made from one record *)

\* SummaryGenerator._truncate
Truncate(text, max_length) ==
    LET flat == Strip([i \in 1..Len(text) |-> IF text[i] = "\n" THEN " " ELSE text[i]])
    IN IF Len(flat) > max_length THEN SubSeq(flat, 1, max_length - 3) \o <<"...">> ELSE flat

SlackDisplayLen == 20

\* the lines under "### Successful Changes"
SlackRow(r) ==
    [kind |-> "row", target |-> r.target, field |-> r.field,
     old |-> Truncate(r.old_value, SlackDisplayLen),
     new |-> Truncate(r.new_value, SlackDisplayLen),
     review |-> IF Truthy(r.revision_url) THEN r.revision_url ELSE <<"-">>]

Heading(name) == [kind |-> "section", name |-> name]

\* SummaryGenerator.generate_slack_summary: the log afterwards and the text
generate_slack_summary(log) ==
    LET successful == get_successful(log)
        failed == get_failed(log)
    IN [log |-> log,
        text |-> IF log = <<>> THEN <<[kind |-> "text", text |-> "No changes recorded."]>>
                 ELSE <<[kind |-> "header",
                         methods |-> {log[i].auth_method : i \in 1..Len(log)},
                         successful |-> Len(successful), failed |-> Len(failed)]>>
                      \o (IF successful # <<>>
                          THEN <<Heading("successful")>>
                               \o [i \in 1..Len(successful) |-> SlackRow(successful[i])]
                          ELSE <<>>)
                      \o (IF failed # <<>>
                          THEN <<Heading("failed")>>
                               \o [i \in 1..Len(failed) |->
                                      [kind |-> "row", target |-> failed[i].target,
                                       error |-> failed[i].error]]
                          ELSE <<>>)]

\* the lines of one successful record in the plain report
RECURSIVE PlainRows(_)
PlainRows(rs) ==
    IF rs = <<>> THEN <<>>
    ELSE LET r == Head(rs)
         IN <<[kind |-> "row", target |-> r.target, field |-> r.field, note |-> r.reason]>>
            \o (IF Truthy(r.revision_url)
                THEN <<[kind |-> "review", url |-> r.revision_url]>> ELSE <<>>)
            \o PlainRows(Tail(rs))

\* a plain summary that lists every record under the successful changes
generate_plain_summary_one_list(log) ==
    <<[kind |-> "header", total |-> Len(log), successful |-> Len(get_successful(log)),
       failed |-> Len(get_failed(log))]>>
    \o (IF log # <<>> THEN <<Heading("successful")>> \o PlainRows(log) ELSE <<>>)

\* SummaryGenerator.generate_plain_summary
generate_plain_summary(log) ==
    LET successful == get_successful(log)
        failed == get_failed(log)
    IN <<[kind |-> "header", total |-> Len(log), successful |-> Len(successful),
          failed |-> Len(failed)]>>
       \o (IF successful # <<>>
           THEN <<Heading("successful")>> \o PlainRows(successful) ELSE <<>>)
       \o (IF failed # <<>>
           THEN <<Heading("failed")>>
                \o [i \in 1..Len(failed) |->
                       [kind |-> "row", target |-> failed[i].target,
                        field |-> failed[i].field, note |-> failed[i].error]]
           ELSE <<>>)

----------------------------------------------------------------------------
(* The Drupal site the scripts run against.  A node is described by whether
   it exists, the fields it has, whether its content type has a workflow,
   and its content: the term references of field_topics, the revision id
   and the body text. *)

Nid == 1
Mid == 7
TagField == "field_topics"
WorkflowStates == {"draft", "published"}

NodeTarget(nid) == <<"node/">> \o Str(nid)

\* $node->save() into a new revision
Saved(s, fieldsNew) == [fieldsNew EXCEPT !.vid = s.vid + 1]

\* the script of TerminusAuth.get_node; $node->get('moderation_state') throws
\* on a node without that field, and nothing catches it
ScriptGetNode(s) ==
    IF ~s.exists THEN [rc |-> 0, out |-> <<"null">>, site |-> s]
    ELSE IF "moderation_state" \notin s.fields
    THEN [rc |-> 1, out |-> <<>>, site |-> s]
    ELSE [rc |-> 0, out |-> JsonObject(<<<<"nid", ToString(Nid)>>>>), site |-> s]

Fail(msg) == JsonObject(<<<<"success", "false">>, <<"error", msg>>>>)

Ok(vid, state) ==
    JsonObject(<<<<"success", "true">>, <<"nid", ToString(Nid)>>,
                 <<"revision_id", ToString(vid)>>, <<"moderation_state", state>>>>)

\* the fields of `changes` the node has are set, in order
RECURSIVE ApplyChanges(_, _)
ApplyChanges(s, changes) ==
    IF changes = <<>> THEN s
    ELSE LET c == Head(changes)
             t == IF c[1] = "body" /\ "body" \in s.fields
                  THEN [s EXCEPT !.body = c[2]] ELSE s
         IN ApplyChanges(t, Tail(changes))

\* the script of NodeEditor._via_drush
ScriptUpdateNode(s, changes, state, saveOK) ==
    IF ~s.exists THEN [rc |-> 0, out |-> Fail("Node not found"), site |-> s]
    ELSE IF ~saveOK THEN [rc |-> 0, out |-> Fail("save failed"), site |-> s]
    ELSE LET t == Saved(s, ApplyChanges(s, changes))
         IN IF "moderation_state" \in s.fields
            THEN [rc |-> 0, out |-> Ok(t.vid, state), site |-> t]
            ELSE [rc |-> 0, out |-> Fail("Field moderation_state is unknown."), site |-> t]

\* the script of NodeEditor.find_and_replace
ScriptFieldValue(s, field) ==
    [rc |-> 0,
     out |-> IF s.exists /\ field = "body" /\ "body" \in s.fields THEN s.body ELSE <<>>,
     site |-> s]

\* the checks the three tag scripts start with
TagPrecondition(s, state) ==
    IF ~s.exists THEN "Node not found"
    ELSE IF TagField \notin s.fields THEN "Field not found: field_topics"
    ELSE IF "moderation_state" \notin s.fields
    THEN "Content moderation not enabled for this content type. Enable it in Drupal before applying changes."
    ELSE IF ~s.workflow THEN "No workflow found for this content type"
    ELSE IF state \notin WorkflowStates THEN "Moderation state not found"
    ELSE "ok"

SaveTags(s, tags, state, saveOK) ==
    IF ~saveOK THEN [rc |-> 0, out |-> Fail("save failed"), site |-> s]
    ELSE LET t == Saved(s, [s EXCEPT !.tags = tags])
         IN [rc |-> 0, out |-> Ok(t.vid, state), site |-> t]

AlreadyThere(s, message) ==
    [rc |-> 0,
     out |-> JsonObject(<<<<"success", "true">>, <<"message", message>>,
                          <<"revision_id", ToString(s.vid)>>>>),
     site |-> s]

\* an add script that appends the term without looking for it first
ScriptAddTag_unchecked(s, term_id, state, saveOK) ==
    IF TagPrecondition(s, state) # "ok"
    THEN [rc |-> 0, out |-> Fail(TagPrecondition(s, state)), site |-> s]
    ELSE SaveTags(s, Append(s.tags, term_id), state, saveOK)

\* the script of TaxonomyManager.add_tag_to_node
ScriptAddTag(s, term_id, state, saveOK) ==
    IF TagPrecondition(s, state) # "ok"
    THEN [rc |-> 0, out |-> Fail(TagPrecondition(s, state)), site |-> s]
    ELSE IF InSeq(term_id, s.tags) THEN AlreadyThere(s, "Tag already present")
    ELSE SaveTags(s, Append(s.tags, term_id), state, saveOK)

\* the script of TaxonomyManager.remove_tag_from_node
ScriptRemoveTag(s, term_id, state, saveOK) ==
    IF TagPrecondition(s, state) # "ok"
    THEN [rc |-> 0, out |-> Fail(TagPrecondition(s, state)), site |-> s]
    ELSE IF Len(Without(s.tags, term_id)) = Len(s.tags)
    THEN AlreadyThere(s, "Tag not present")
    ELSE SaveTags(s, Without(s.tags, term_id), state, saveOK)

\* a replace script without the array_unique
ScriptReplaceTag_keeps_duplicates(s, old_term_id, new_term_id, state, saveOK) ==
    IF TagPrecondition(s, state) # "ok"
    THEN [rc |-> 0, out |-> Fail(TagPrecondition(s, state)), site |-> s]
    ELSE IF ~InSeq(old_term_id, s.tags)
    THEN [rc |-> 0, out |-> Fail("Old tag not present on node"), site |-> s]
    ELSE SaveTags(s, MapReplace(s.tags, old_term_id, new_term_id), state, saveOK)

\* the script of TaxonomyManager.replace_tag_on_node
ScriptReplaceTag(s, old_term_id, new_term_id, state, saveOK) ==
    IF TagPrecondition(s, state) # "ok"
    THEN [rc |-> 0, out |-> Fail(TagPrecondition(s, state)), site |-> s]
    ELSE IF ~InSeq(old_term_id, s.tags)
    THEN [rc |-> 0, out |-> Fail("Old tag not present on node"), site |-> s]
    ELSE SaveTags(s, Unique(MapReplace(s.tags, old_term_id, new_term_id)), state, saveOK)

\* the script of MediaEditor._update_via_drush
ScriptUpdateAlt(s, alt_text, saveOK) ==
    IF ~s.media THEN [rc |-> 0, out |-> Fail("Media not found"), site |-> s]
    ELSE IF ~saveOK THEN [rc |-> 0, out |-> Fail("save failed"), site |-> s]
    ELSE [rc |-> 0,
          out |-> JsonObject(<<<<"success", "true">>, <<"mid", ToString(Mid)>>,
                               <<"revision_id", ToString(Mid)>>>>),
          site |-> [s EXCEPT !.alt = alt_text]]

----------------------------------------------------------------------------
(* auth/terminus.py *)

DefaultTimeout == 120

CommandResult(success, stdout, stderr, return_code) ==
    [success |-> success, stdout |-> stdout, stderr |-> stderr,
     return_code |-> return_code]

\* what the spawned process does: it exits with a code, or runs past the
\* timeout
Exit(rc, stdout, stderr) == [kind |-> "exit", rc |-> rc, stdout |-> stdout, stderr |-> stderr]

\* a script under php:eval, as the CLI delivers it.  c is the environment's
\* part: "ok" delivers what the script printed, "noise" prefixes it with a
\* notice, "array" and "norevid" deliver other JSON, "denied" and "nonzero"
\* are CLI failures before the script ran, "timeout" a run past the timeout
Process(script, c) ==
    CASE c = "ok" ->
            Exit(script.rc, script.out,
                 IF script.rc = 0 THEN <<>> ELSE <<"Error: uncaught exception">>)
      [] c = "noise" -> Exit(0, <<"Deprecated: notice">> \o script.out, <<>>)
      [] c = "array" -> Exit(0, <<"[", "]">>, <<>>)
      [] c = "norevid" -> Exit(0, JsonObject(<<<<"success", "true">>>>), <<>>)
      [] c = "denied" -> Exit(1, <<>>, <<"You are not logged in.">>)
      [] c = "nonzero" -> Exit(1, <<>>, <<"terminus: command failed">>)
      [] OTHER -> [kind |-> "timeout"]

\* the site after the call
SiteAfter(script, c, before) ==
    IF c \in {"denied", "nonzero", "timeout"} THEN before ELSE script.site

\* the processes a _run_command leaves behind when it returns: one that
\* ended has been reaped by communicate(); on the timeout wait_for cancels
\* communicate() and nothing ends the process
left_running(p) == IF p.kind = "timeout" THEN 1 ELSE 0

\* TerminusAuth._run_command
run_command(p) ==
    IF p.kind = "exit"
    THEN CommandResult(p.rc = 0, p.stdout, p.stderr, p.rc)
    ELSE IF p.kind = "timeout"
    THEN CommandResult(FALSE, <<>>,
                       <<"Command timed out after ">> \o Str(DefaultTimeout) \o <<"s">>, -1)
    ELSE CommandResult(FALSE, <<>>, p.stderr, -1)

\* the entries of `trace`: one per command sent to the CLI or the browser
WhoamiCmd == <<"terminus", "auth:whoami">>
LoginCmd == <<"terminus", "auth:login">>
ViewCmd == <<"terminus", "env:view">>
DrushCmd(script) == <<"drush", script>>

\* terminus auth:whoami prints the user of the session, if there is one
WhoamiProcess(logged_in) ==
    IF logged_in THEN Exit(0, <<"user@example.com", "\n">>, <<>>)
    ELSE Exit(1, <<>>, <<"You are not logged in.">>)

\* terminus auth:login --machine-token
LoginProcess(token) ==
    IF token = "valid" THEN Exit(0, <<>>, <<>>) ELSE Exit(1, <<>>, <<"Invalid token">>)

\* an authenticate that tries the login whether or not there is a token
authenticate_blind(token, logged_in) ==
    LET whoami_result == run_command(WhoamiProcess(logged_in))
    IN IF whoami_result.success /\ Strip(whoami_result.stdout) # <<>>
       THEN [ok |-> TRUE, session |-> logged_in, cmds |-> <<WhoamiCmd>>]
       ELSE LET auth_result == run_command(LoginProcess(token))
            IN [ok |-> auth_result.success,
                session |-> logged_in \/ auth_result.success,
                cmds |-> <<WhoamiCmd, LoginCmd>>]

\* TerminusAuth.authenticate: whether it returns True, the CLI session
\* afterwards and the commands it ran
authenticate(token, logged_in) ==
    LET whoami_result == run_command(WhoamiProcess(logged_in))
    IN IF whoami_result.success /\ Strip(whoami_result.stdout) # <<>>
       THEN [ok |-> TRUE, session |-> logged_in, cmds |-> <<WhoamiCmd>>]
       ELSE IF token = "none"
       THEN [ok |-> FALSE, session |-> logged_in, cmds |-> <<WhoamiCmd>>]
       ELSE LET auth_result == run_command(LoginProcess(token))
            IN [ok |-> auth_result.success,
                session |-> logged_in \/ auth_result.success,
                cmds |-> <<WhoamiCmd, LoginCmd>>]

\* a php_eval that sends the command again when it failed
php_eval_retry(st, name, script, c) ==
    LET login == IF ~st.authenticated THEN authenticate(st.token, st.session)
                 ELSE [ok |-> TRUE, session |-> st.session, cmds |-> <<>>]
        answer == IF login.session THEN c ELSE "denied"
        first == run_command(Process(script, answer))
    IN [st |-> [st EXCEPT !.authenticated = st.authenticated \/ login.ok,
                          !.session = login.session,
                          !.site = SiteAfter(script, answer, st.site),
                          !.running = st.running + left_running(Process(script, answer))],
        cmds |-> login.cmds \o <<DrushCmd(name)>>
                 \o (IF first.success THEN <<>> ELSE <<DrushCmd(name)>>),
        result |-> first]

\* TerminusAuth.drush under php_eval (which only wraps the code): the client
\* afterwards, the commands run, the CommandResult.  Without a session the
\* CLI refuses the command
php_eval(st, name, script, c) ==
    LET login == IF ~st.authenticated THEN authenticate(st.token, st.session)
                 ELSE [ok |-> TRUE, session |-> st.session, cmds |-> <<>>]
        answer == IF login.session THEN c ELSE "denied"
    IN [st |-> [st EXCEPT !.authenticated = st.authenticated \/ login.ok,
                          !.session = login.session,
                          !.site = SiteAfter(script, answer, st.site),
                          !.running = st.running + left_running(Process(script, answer))],
        cmds |-> login.cmds \o <<DrushCmd(name)>>,
        result |-> run_command(Process(script, answer))]

\* TerminusAuth.get_node: truthy data or None
get_node(st, c) ==
    LET d == php_eval(st, "get_node", ScriptGetNode(st.site), c)
    IN [st |-> d.st, cmds |-> d.cmds,
        node |-> d.result.success /\ JsonKind(Strip(d.result.stdout)) = "object"]

\* TerminusAuth.get_site_url
get_site_url(v) ==
    LET r == run_command(IF v = "ok" THEN Exit(0, <<"https://live-site.example", "\n">>, <<>>)
                         ELSE Exit(1, <<>>, <<"error">>))
    IN IF r.success /\ Strip(r.stdout) # <<>>
       THEN Strip(r.stdout)
       ELSE <<"https://", "live", "-", "site", ".pantheonsite.io">>

----------------------------------------------------------------------------
(* auth/playwright.py *)

BaseUrl == <<"https://example.com">>

\* PlaywrightAuth.authenticate on client st; c is what the browser meets:
\* "not_installed", "goto_fail", "rejected" or "ok"
pw_authenticate(st, c) ==
    IF c = "not_installed" THEN [ok |-> FALSE, st |-> st, cmds |-> <<>>]
    ELSE LET b == st.launched + 1
             t == [st EXCEPT !.browser = b, !.page = b, !.launched = b,
                             !.open = st.open \cup {b}]
         IN IF c = "goto_fail"
            THEN [ok |-> FALSE, st |-> t, cmds |-> <<<<"browser", "launch">>, <<"goto", "login">>>>]
            ELSE [ok |-> c = "ok",
                  st |-> IF c = "ok" THEN [t EXCEPT !.authenticated = TRUE] ELSE t,
                  cmds |-> <<<<"browser", "launch">>, <<"goto", "login">>,
                             <<"click", "login">>>>]

\* PlaywrightAuth.get_node: c is what authenticate() meets, goto whether the
\* edit form loads.  What authenticate() returned is not looked at; with no
\* page the AttributeError is caught like any failure of the page
pw_get_node(st, c, goto) ==
    LET a == IF ~st.authenticated THEN pw_authenticate(st, c)
             ELSE [ok |-> TRUE, st |-> st, cmds |-> <<>>]
    IN IF a.st.page = 0
       THEN [st |-> a.st, cmds |-> a.cmds, node |-> FALSE, ok |-> a.ok]
       ELSE [st |-> a.st, cmds |-> a.cmds \o <<<<"goto", "edit">>>>,
             node |-> goto = "ok" /\ st.site.exists, ok |-> a.ok]

\* PlaywrightAuth.close
pw_close(st) ==
    IF st.browser # 0
    THEN [st EXCEPT !.open = st.open \ {st.browser}, !.browser = 0, !.page = 0,
                    !.authenticated = FALSE]
    ELSE st

----------------------------------------------------------------------------
(* operations/nodes.py *)

DefaultModerationState == "ava_suggestion"

DraftRevision(nid, revision_id, moderation_state, revision_url, success, error) ==
    [type |-> "DraftRevision", nid |-> nid, revision_id |-> revision_id,
     moderation_state |-> moderation_state, revision_url |-> revision_url,
     success |-> success, error |-> error]

DraftFailure(nid, error) == DraftRevision(nid, 0, "", <<>>, FALSE, error)

\* an exception that leaves the operation
Raised(exc) == [type |-> "exception", exc |-> exc]

\* what an operation hands back: the client afterwards, the value returned
\* and the commands sent
Outcome(st, res, cmds) == [st |-> st, result |-> res, cmds |-> cmds]

\* "terminus" if hasattr(self.auth, "drush") else "playwright"
AuthMethod(st) == IF st.backend = "terminus" THEN "terminus" ELSE "playwright"

\* a _record_failure that leaves the success flag at its default, True
RECURSIVE record_failure_default_flag(_, _, _, _, _, _)
record_failure_default_flag(log, method, nid, changes, reason, error) ==
    IF changes = <<>> THEN log
    ELSE record_failure_default_flag(
             record(log, ChangeRecord(method, "update_node", NodeTarget(nid),
                                      Head(changes)[1], <<>>, Head(changes)[2], reason,
                                      NoneInt, None, None, TRUE, error)),
             method, nid, Tail(changes), reason, error)

\* NodeEditor._record_failure
RECURSIVE record_failure(_, _, _, _, _, _)
record_failure(log, method, nid, changes, reason, error) ==
    IF changes = <<>> THEN log
    ELSE record_failure(
             record(log, ChangeRecord(method, "update_node", NodeTarget(nid),
                                      Head(changes)[1], <<>>, Head(changes)[2], reason,
                                      NoneInt, None, None, FALSE, error)),
             method, nid, Tail(changes), reason, error)

\* a success loop that passes the new text as old_value
RECURSIVE record_success_swapped(_, _, _, _, _, _, _, _)
record_success_swapped(log, method, nid, changes, reason, revision_id, revision_url, shot) ==
    IF changes = <<>> THEN log
    ELSE record_success_swapped(
             record(log, ChangeRecord(method, "update_node", NodeTarget(nid),
                                      Head(changes)[1], Head(changes)[2],
                                      <<"(previous value)">>, reason,
                                      revision_id, revision_url, shot, TRUE, None)),
             method, nid, Tail(changes), reason, revision_id, revision_url, shot)

\* a success loop that stops after the first field
record_success_first_field(log, method, nid, changes, reason, revision_id, revision_url, shot) ==
    IF changes = <<>> THEN log
    ELSE record(log, ChangeRecord(method, "update_node", NodeTarget(nid),
                                  Head(changes)[1], <<"(previous value)">>,
                                  Head(changes)[2], reason,
                                  revision_id, revision_url, shot, TRUE, None))

\* the loop that records a success, one record per field
RECURSIVE record_success(_, _, _, _, _, _, _, _)
record_success(log, method, nid, changes, reason, revision_id, revision_url, shot) ==
    IF changes = <<>> THEN log
    ELSE record_success(
             record(log, ChangeRecord(method, "update_node", NodeTarget(nid),
                                      Head(changes)[1], <<"(previous value)">>,
                                      Head(changes)[2], reason,
                                      revision_id, revision_url, shot, TRUE, None)),
             method, nid, Tail(changes), reason, revision_id, revision_url, shot)

\* _record_failure, and the failure handed back with it
NodeFailed(st, nid, changes, reason, error, cmds) ==
    Outcome([st EXCEPT !.log = record_failure(st.log, AuthMethod(st), nid, changes,
                                              reason, error)],
            DraftFailure(nid, error), cmds)

\* response.get("success")
ResponseSuccess(response) ==
    JsonHas(response, "success") /\ JsonGet(response, "success") = "true"

\* response.get("error", "Unknown error")
ResponseError(response) ==
    IF JsonHas(response, "error") THEN <<JsonGet(response, "error")>>
    ELSE <<"Unknown error">>

RevisionUrl(site_url, nid, revision_id) ==
    site_url \o <<"/node/">> \o Str(nid) \o <<"/revisions/">> \o Str(revision_id)
             \o <<"/view">>

\* what _via_drush does with the CommandResult of its script
node_result(st, nid, changes, reason, r, cmds, view) ==
    LET out == Strip(r.stdout)
    IN
    IF ~r.success
    THEN NodeFailed(st, nid, changes, reason, <<"Drush failed: ">> \o r.stderr, cmds)
    ELSE IF JsonKind(out) = "invalid"
    THEN NodeFailed(st, nid, changes, reason, <<"Invalid JSON response: ">> \o r.stdout, cmds)
    ELSE IF JsonKind(out) # "object"
    THEN Outcome(st, Raised("AttributeError"), cmds)
    ELSE IF ~ResponseSuccess(out)
    THEN NodeFailed(st, nid, changes, reason, ResponseError(out), cmds)
    ELSE IF ~JsonHas(out, "revision_id")
    THEN Outcome(st, Raised("KeyError"), cmds \o <<ViewCmd>>)
    ELSE
    LET revision_id == JsonInt(JsonGet(out, "revision_id"))
        revision_url == RevisionUrl(get_site_url(view), nid, revision_id)
    IN Outcome([st EXCEPT !.log = record_success(st.log, "terminus", nid, changes, reason,
                                                 revision_id, revision_url, None)],
               DraftRevision(nid, revision_id,
                             IF JsonHas(out, "moderation_state")
                             THEN JsonGet(out, "moderation_state")
                             ELSE DefaultModerationState,
                             revision_url, TRUE, None),
               cmds \o <<ViewCmd>>)

\* NodeEditor._via_drush; e is the environment of this call
via_drush(st, nid, changes, reason, e) ==
    LET g == get_node(st, e.q)
    IN IF ~g.node
       THEN Outcome(g.st, DraftFailure(nid, <<"Node ">> \o Str(nid) \o <<" not found">>),
                    g.cmds)
       ELSE LET d == php_eval(g.st, "update_node",
                              ScriptUpdateNode(g.st.site, changes, DefaultModerationState,
                                               e.saveOK),
                              e.m)
            IN node_result(d.st, nid, changes, reason, d.result, g.cmds \o d.cmds, e.view)

\* the selectors tried for a field, in order
Selectors == <<"textarea[name=f[0][value]]", "input[name=f[0][value]]",
               "textarea[name=f]", "input[name=f]">>

\* a choice of the last selector that can be filled
LastMatch(matching) ==
    IF matching = {} THEN 0
    ELSE CHOOSE i \in matching : \A j \in matching : i >= j

\* the first of a set of selectors (0: none)
FirstMatch(matching) ==
    IF matching = {} THEN 0
    ELSE CHOOSE i \in matching : \A j \in matching : i <= j

\* the loop over the selectors for one field: count() on each in turn; a
\* selector that matches is filled, and the loop ends unless fill() raised.
\* matching are the selectors that match an element, broken those whose
\* fill() raises
TrySelectors(field, matching, broken) ==
    LET sel == FirstMatch(matching \ broken)
        last == IF sel = 0 THEN Len(Selectors) ELSE sel
        RECURSIVE From(_)
        From(i) ==
            IF i > last THEN <<>>
            ELSE <<<<"count", field, ToString(i)>>>>
                 \o (IF i \notin matching THEN <<>>
                     ELSE IF i = sel THEN <<<<"fill", field, ToString(i)>>>>
                     ELSE <<<<"fill_raised", field, ToString(i)>>>>)
                 \o From(i + 1)
    IN From(1)

\* the fields of `changes` that were filled; sel is the selector filled for
\* the body field of the edit form (other fields are not on the form)
RECURSIVE Filled(_, _)
Filled(changes, sel) ==
    IF changes = <<>> THEN <<>>
    ELSE (IF Head(changes)[1] = "body" /\ sel > 0 THEN <<Head(changes)>> ELSE <<>>)
         \o Filled(Tail(changes), sel)

\* `for field_name, new_value in changes.items()` over the form
RECURSIVE FillCmds(_, _, _)
FillCmds(changes, matching, broken) ==
    IF changes = <<>> THEN <<>>
    ELSE (IF Head(changes)[1] = "body"
          THEN TrySelectors("body", matching, broken)
          ELSE TrySelectors(Head(changes)[1], {}, {}))
         \o FillCmds(Tail(changes), matching, broken)

\* page.url after the form was saved: Drupal redirects to the node's page,
\* under its system path or under its alias
CurrentUrl(landed, nid) ==
    IF landed = "alias" THEN BaseUrl \o <<"/about-us">>
    ELSE BaseUrl \o <<"/node/">> \o Str(nid)

\* NodeEditor._via_browser
via_browser(st, nid, changes, reason, e) ==
    LET a == IF ~st.authenticated THEN pw_authenticate(st, e.login)
             ELSE [ok |-> TRUE, st |-> st, cmds |-> <<>>]
        st1 == a.st
        goto == a.cmds \o <<<<"goto", "edit">>>>
        sel == FirstMatch(e.matching \ e.broken)
        fills == goto \o FillCmds(changes, e.matching, e.broken) \o <<<<"click", "save">>>>
        node_url == BaseUrl \o <<"/node/">> \o Str(nid)
        current_url == CurrentUrl(e.landed, nid)
    IN
    IF ~a.ok
    THEN Outcome(st1, DraftFailure(nid, <<"Failed to authenticate">>), a.cmds)
    ELSE IF e.goto = "fail"
    THEN NodeFailed(st1, nid, changes, reason, <<"Timeout 30000ms exceeded.">>, goto)
    ELSE IF e.submit = "error"
    THEN NodeFailed(st1, nid, changes, reason, <<"Timeout 30000ms exceeded.">>, fills)
    ELSE IF e.submit = "nobanner"
    THEN NodeFailed(st1, nid, changes, reason, <<"No success message found after save">>,
                    fills)
    ELSE Outcome([st1 EXCEPT
                     !.site = Saved(st.site, ApplyChanges(st.site, Filled(changes, sel))),
                     !.log = record_success(st1.log, "playwright", nid, changes, reason,
                                            NoneInt, current_url,
                                            <<"screenshots/node_">> \o Str(nid) \o <<"_after.png">>)],
                 DraftRevision(nid, 0, DefaultModerationState, node_url, TRUE, None),
                 fills)

\* NodeEditor.create_draft_revision
create_draft_revision(st, nid, changes, reason, e) ==
    IF st.backend = "terminus"
    THEN via_drush(st, nid, changes, reason, e)
    ELSE via_browser(st, nid, changes, reason, e)

\* a find_and_replace that goes on without looking for the text
find_and_replace_unchecked(st, nid, field, find, replace, reason, e) ==
    LET d == IF st.backend = "terminus"
             THEN php_eval(st, "field_value", ScriptFieldValue(st.site, field), e.f)
             ELSE [st |-> st, cmds |-> <<>>, result |-> CommandResult(FALSE, <<>>, <<>>, -1)]
        current_value == IF d.result.success THEN d.result.stdout ELSE <<>>
    IN
    IF current_value = <<>>
    THEN Outcome(d.st, DraftFailure(nid, <<"Could not get current value of ", field>>),
                 d.cmds)
    ELSE LET o == create_draft_revision(d.st, nid,
                      <<<<field, Replace(current_value, find, replace)>>>>, reason, e)
         IN Outcome(o.st, o.result, d.cmds \o o.cmds)

\* NodeEditor.find_and_replace
find_and_replace(st, nid, field, find, replace, reason, e) ==
    LET d == IF st.backend = "terminus"
             THEN php_eval(st, "field_value", ScriptFieldValue(st.site, field), e.f)
             ELSE [st |-> st, cmds |-> <<>>, result |-> CommandResult(FALSE, <<>>, <<>>, -1)]
        current_value == IF d.result.success THEN d.result.stdout ELSE <<>>
    IN
    IF current_value = <<>>
    THEN Outcome(d.st, DraftFailure(nid, <<"Could not get current value of ", field>>),
                 d.cmds)
    ELSE IF ~Contains(current_value, find)
    THEN Outcome(d.st, DraftFailure(nid, <<"'">> \o find \o <<"' not found in ", field>>),
                 d.cmds)
    ELSE LET o == create_draft_revision(d.st, nid,
                      <<<<field, Replace(current_value, find, replace)>>>>, reason, e)
         IN Outcome(o.st, o.result, d.cmds \o o.cmds)

----------------------------------------------------------------------------
(* operations/taxonomy.py *)

TagRecord(op, nid, field_name, old_value, new_value, reason, revision_id, revision_url, success, error) ==
    ChangeRecord("terminus", op, NodeTarget(nid), field_name, old_value, new_value,
                 reason, revision_id, revision_url, None, success, error)

\* what the three tag operations do with the CommandResult of their script;
\* only add_tag_to_node records a Drush failure
tag_result(st, op, nid, field_name, old_value, new_value, reason, r, cmds, view, recordsDrushFailure) ==
    LET out == Strip(r.stdout)
        drush_error == <<"Drush failed: ">> \o r.stderr
    IN
    IF ~r.success
    THEN Outcome(IF recordsDrushFailure
                 THEN [st EXCEPT !.log = record(st.log,
                          TagRecord(op, nid, field_name, <<>>, new_value, reason,
                                    NoneInt, None, FALSE, drush_error))]
                 ELSE st,
                 DraftFailure(nid, drush_error), cmds)
    ELSE IF JsonKind(out) = "invalid"
    THEN Outcome(st, DraftFailure(nid, <<"Invalid JSON response: ">> \o r.stdout), cmds)
    ELSE IF JsonKind(out) # "object"
    THEN Outcome(st, Raised("AttributeError"), cmds)
    ELSE IF ~ResponseSuccess(out)
    THEN Outcome(st, DraftFailure(nid, ResponseError(out)), cmds)
    ELSE
    LET revision_id == IF JsonHas(out, "revision_id")
                       THEN JsonInt(JsonGet(out, "revision_id")) ELSE 0
        revision_url == RevisionUrl(get_site_url(view), nid, revision_id)
    IN Outcome([st EXCEPT !.log = record(st.log,
                    TagRecord(op, nid, field_name, old_value, new_value, reason,
                              revision_id, revision_url, TRUE, None))],
               DraftRevision(nid, revision_id,
                             IF JsonHas(out, "moderation_state")
                             THEN JsonGet(out, "moderation_state") ELSE "",
                             revision_url, TRUE, None),
               cmds \o <<ViewCmd>>)

\* a tag operation that logs the browser in before it looks at the backend
tag_operation_login_first(st, op, nid, field_name, old_value, new_value, reason, script, e, recordsDrushFailure) ==
    IF st.backend # "terminus"
    THEN LET a == pw_authenticate(st, "ok")
         IN Outcome(a.st, DraftFailure(nid, <<op, " only supported via Terminus">>), a.cmds)
    ELSE LET d == php_eval(st, op, script, e.m)
         IN tag_result(d.st, op, nid, field_name, old_value, new_value, reason, d.result,
                       d.cmds, e.view, recordsDrushFailure)

\* the part the three share: the backend check, the script through
\* php_eval, then tag_result
tag_operation(st, op, nid, field_name, old_value, new_value, reason, script, e, recordsDrushFailure) ==
    IF st.backend # "terminus"
    THEN Outcome(st, DraftFailure(nid, <<op, " only supported via Terminus">>), <<>>)
    ELSE LET d == php_eval(st, op, script, e.m)
         IN tag_result(d.st, op, nid, field_name, old_value, new_value, reason, d.result,
                       d.cmds, e.view, recordsDrushFailure)

TaxonomyProposal(action, target, vocabulary, term_name, message) ==
    [type |-> "TaxonomyProposal", action |-> action, target |-> target,
     vocabulary |-> vocabulary, term_name |-> term_name, success |-> TRUE,
     message |-> message]

\* TaxonomyManager.propose_add_term: the proposal is logged, nothing is sent
propose_add_term(st, vocabulary, term_name, reason) ==
    LET target == <<"vocabulary/">> \o vocabulary
    IN Outcome([st EXCEPT !.log = record(st.log,
                    ChangeRecord("proposal", "propose_add_term", target, "name", <<>>,
                                 term_name, reason, NoneInt, None, None, TRUE, None))],
               TaxonomyProposal("add_term", target, vocabulary, term_name,
                                <<"Proposed: Add '">> \o term_name \o <<"' to ">>
                                    \o vocabulary \o <<". Requires manual approval.">>),
               <<>>)

\* a propose_node_tag that puts the reference on the node as well
propose_node_tag_applied(st, nid, term_field, term_name, vocabulary, reason) ==
    Outcome([st EXCEPT !.log = record(st.log,
                 ChangeRecord("proposal", "propose_node_tag", NodeTarget(nid), term_field,
                              <<>>, term_name, reason, NoneInt, None, None, TRUE, None)),
                       !.site = Saved(st.site, [st.site EXCEPT !.tags = Append(@, 1)])],
            TaxonomyProposal("add_reference", NodeTarget(nid), vocabulary, term_name,
                             <<"Proposed: Add tag '">> \o term_name \o <<"' to ">>
                                 \o NodeTarget(nid)),
            <<>>)

\* TaxonomyManager.propose_node_tag
propose_node_tag(st, nid, term_field, term_name, vocabulary, reason) ==
    Outcome([st EXCEPT !.log = record(st.log,
                 ChangeRecord("proposal", "propose_node_tag", NodeTarget(nid), term_field,
                              <<>>, term_name, reason, NoneInt, None, None, TRUE, None))],
            TaxonomyProposal("add_reference", NodeTarget(nid), vocabulary, term_name,
                             <<"Proposed: Add tag '">> \o term_name \o <<"' to ">>
                                 \o NodeTarget(nid)),
            <<>>)

\* TaxonomyManager.add_tag_to_node
add_tag_to_node(st, nid, field_name, term_id, reason, moderation_state, e) ==
    tag_operation(st, "add_tag_to_node", nid, field_name, <<>>, Str(term_id), reason,
                  ScriptAddTag(st.site, term_id, moderation_state, e.saveOK), e, TRUE)

\* TaxonomyManager.remove_tag_from_node
remove_tag_from_node(st, nid, field_name, term_id, reason, moderation_state, e) ==
    tag_operation(st, "remove_tag_from_node", nid, field_name, Str(term_id), <<>>, reason,
                  ScriptRemoveTag(st.site, term_id, moderation_state, e.saveOK), e, FALSE)

\* TaxonomyManager.replace_tag_on_node
replace_tag_on_node(st, nid, field_name, old_term_id, new_term_id, reason, moderation_state, e) ==
    tag_operation(st, "replace_tag_on_node", nid, field_name, Str(old_term_id),
                  Str(new_term_id), reason,
                  ScriptReplaceTag(st.site, old_term_id, new_term_id, moderation_state,
                                   e.saveOK), e, FALSE)

----------------------------------------------------------------------------
(* operations/media.py *)

MediaUpdate(mid, success, revision_url, error) ==
    [type |-> "MediaUpdate", mid |-> mid, success |-> success,
     revision_url |-> revision_url, error |-> error]

MediaTarget(mid) == <<"media/">> \o Str(mid)

\* MediaEditor._record_failure, and the failure handed back with it
media_record_failure(st, mid, alt_text, reason, error, cmds) ==
    Outcome([st EXCEPT !.log = record(st.log,
                ChangeRecord(AuthMethod(st), "update_media", MediaTarget(mid), "alt",
                             <<>>, alt_text, reason, NoneInt, None, None, FALSE, error))],
            MediaUpdate(mid, FALSE, None, error), cmds)

\* MediaEditor._update_via_drush
update_via_drush(st, mid, alt_text, reason, e) ==
    LET d == php_eval(st, "update_media", ScriptUpdateAlt(st.site, alt_text, e.saveOK), e.m)
        out == Strip(d.result.stdout)
    IN
    IF ~d.result.success
    THEN media_record_failure(d.st, mid, alt_text, reason,
                              <<"Drush failed: ">> \o d.result.stderr, d.cmds)
    ELSE IF JsonKind(out) = "invalid"
    THEN media_record_failure(d.st, mid, alt_text, reason,
                              <<"Invalid response: ">> \o d.result.stdout, d.cmds)
    ELSE IF JsonKind(out) # "object"
    THEN Outcome(d.st, Raised("AttributeError"), d.cmds)
    ELSE IF ~ResponseSuccess(out)
    THEN media_record_failure(d.st, mid, alt_text, reason, ResponseError(out), d.cmds)
    ELSE
    LET revision_url == get_site_url(e.view) \o <<"/media/">> \o Str(mid) \o <<"/edit">>
    IN Outcome([d.st EXCEPT !.log = record(d.st.log,
                    ChangeRecord("terminus", "update_media", MediaTarget(mid), "alt",
                                 <<"(previous alt)">>, alt_text, reason, NoneInt,
                                 revision_url, None, TRUE, None))],
               MediaUpdate(mid, TRUE, revision_url, None),
               d.cmds \o <<ViewCmd>>)

\* MediaEditor.update_alt_text
update_alt_text(st, mid, alt_text, reason, e) ==
    IF st.backend = "terminus"
    THEN update_via_drush(st, mid, alt_text, reason, e)
    ELSE Outcome(st, MediaUpdate(mid, FALSE, None, <<"Not implemented">>), <<>>)

----------------------------------------------------------------------------
(* The client as a state machine: one action per operation of the facade *)

Node(exists, fields, workflow, tags, body) ==
    [exists |-> exists, fields |-> fields, workflow |-> workflow, tags |-> tags,
     vid |-> 1, body |-> body, media |-> exists, alt |-> <<"old alt">>]

AllFields == {"body", TagField, "moderation_state"}

\* the sites the client is pointed at
Sites ==
    { Node(FALSE, {}, FALSE, <<>>, <<>>),
      Node(TRUE, AllFields, TRUE, <<1>>, <<"a", "b">>),
      Node(TRUE, {"body", TagField}, FALSE, <<1>>, <<>>) }

\* the CLI sessions and tokens a terminus client starts with
Logins ==
    { [session |-> TRUE, token |-> "none"], [session |-> FALSE, token |-> "none"],
      [session |-> FALSE, token |-> "valid"], [session |-> FALSE, token |-> "invalid"] }

NoCall == [op |-> "none"]
NoResult == [type |-> "none"]

\* the variables of the environment the program reads
EnvNames ==
    {"PANTHEON_MACHINE_TOKEN", "PANTHEON_SITE", "DRUPAL_BASE_URL", "DRUPAL_USERNAME",
     "DRUPAL_PASSWORD"}

\* the callers that may use one client at the same time
Callers == 1..NumCallers

\* DrupalClient.__init__ behind with_terminus / with_playwright
Init ==
    /\ backend \in {"terminus", "playwright"}
    /\ \E l \in (IF backend = "terminus" THEN Logins
                 ELSE {[session |-> FALSE, token |-> "none"]}) :
          session = l.session /\ machine_token = l.token
    /\ authenticated = FALSE
    /\ browser = 0
    /\ page = 0
    /\ launched = 0
    /\ open = {}
    /\ site \in Sites
    /\ records = <<>>
    /\ call = NoCall
    /\ result = NoResult
    /\ trace = <<>>
    /\ pre = [len |-> 0, site |-> site]
    /\ ncalls = 0
    /\ pc = [c \in Callers |-> "idle"]
    /\ held = [c \in Callers |-> 0]
    /\ running = 0
    /\ environ = [n \in EnvNames |->
                    IF n = "PANTHEON_MACHINE_TOKEN" /\ machine_token # "none"
                    THEN <<"token">> ELSE None]

\* the client the operations work on
Client ==
    [backend |-> backend, token |-> machine_token, session |-> session,
     authenticated |-> authenticated, browser |-> browser, page |-> page,
     launched |-> launched, open |-> open, site |-> site, log |-> records,
     running |-> running]

\* the inputs of the operations
Reason == <<"Ava: fix">>
Changes ==
    { <<<<"body", <<"b">>>>>>,
      <<<<"body", <<"b">>>>, <<"field_x", <<"a">>>>>> }
Finds == {<<"a">>, <<"c">>}
Replacement == <<"b">>
TermIds == {1, 2}
TargetStates == {"draft", "review"}
AltText == <<"a cat">>

\* what the environment can answer.  Only a CLI with a session, or with a
\* token to get one, runs a command; any other refuses it whatever the
\* answer would have been, and one answer stands for all
Answered == backend = "terminus" /\ (session \/ machine_token = "valid")
QueryAnswers == IF Answered THEN {"ok", "nonzero"} ELSE {"ok"}
ScriptAnswers ==
    IF Answered
    THEN { [m |-> "ok", saveOK |-> TRUE, view |-> v] : v \in {"ok", "fail"} }
         \cup { [m |-> c, saveOK |-> c # "ok", view |-> "ok"] :
                  c \in {"ok", "noise", "array", "norevid", "nonzero", "timeout"} }
    ELSE { [m |-> "ok", saveOK |-> TRUE, view |-> "ok"] }
LoginAnswers == {"ok", "not_installed", "goto_fail", "rejected"}
LoginFor(auth) == IF auth THEN {"ok"} ELSE LoginAnswers
FormAnswers ==
    { [goto |-> "fail", matching |-> {}, broken |-> {}, submit |-> "error",
       landed |-> "node"] }
    \cup { [goto |-> "ok", matching |-> ms.matching, broken |-> ms.broken, submit |-> sb.submit,
            landed |-> sb.landed] :
             ms \in { [matching |-> {}, broken |-> {}], [matching |-> {1, 3}, broken |-> {}],
                      [matching |-> {1, 3}, broken |-> {1}], [matching |-> {4}, broken |-> {}] },
             sb \in { [submit |-> "banner", landed |-> "node"],
                      [submit |-> "banner", landed |-> "alias"],
                      [submit |-> "nobanner", landed |-> "node"],
                      [submit |-> "error", landed |-> "node"] } }

\* the environment of one create_draft_revision
NodeEnvs ==
    IF backend = "terminus"
    THEN { [q |-> q, m |-> s.m, saveOK |-> s.saveOK, view |-> s.view,
            login |-> "ok", goto |-> "ok", matching |-> {}, broken |-> {},
            submit |-> "banner", landed |-> "node"] :
             q \in QueryAnswers, s \in ScriptAnswers }
    ELSE { [q |-> "ok", m |-> "ok", saveOK |-> TRUE, view |-> "ok",
            login |-> l, goto |-> f.goto, matching |-> f.matching, broken |-> f.broken,
            submit |-> f.submit, landed |-> f.landed] :
             l \in LoginFor(authenticated),
             f \in {g \in FormAnswers : g.submit = "banner" => site.exists} }

\* the calls followed on one client; a browser client is followed one call
\* further, to the close() after a handle was acquired and replaced
MaxDepth == IF backend = "terminus" THEN MaxCalls ELSE MaxCalls + 1

\* the step of the client that invocation c with outcome o is
Invoke(c, o) ==
    /\ ncalls < MaxDepth
    /\ ncalls' = ncalls + 1
    /\ session' = o.st.session
    /\ authenticated' = o.st.authenticated
    /\ browser' = o.st.browser
    /\ page' = o.st.page
    /\ launched' = o.st.launched
    /\ open' = o.st.open
    /\ site' = o.st.site
    /\ records' = o.st.log
    /\ running' = o.st.running
    /\ call' = c
    /\ result' = o.result
    /\ trace' = o.cmds
    /\ pre' = [len |-> Len(records), site |-> site]
    /\ UNCHANGED <<backend, machine_token, pc, held, environ>>

CreateDraftRevision ==
    \E changes \in Changes, e \in NodeEnvs :
        Invoke([op |-> "create_draft_revision", changes |-> changes, answer |-> e.m,
                matching |-> e.matching, broken |-> e.broken],
               create_draft_revision(Client, Nid, changes, Reason, e))

\* the environment of one find_and_replace: the answer to its query for the
\* field's value, then that of the create_draft_revision it may go on to
WithFetch(n, f) ==
    [f |-> f, q |-> n.q, m |-> n.m, saveOK |-> n.saveOK, view |-> n.view,
     login |-> n.login, goto |-> n.goto, matching |-> n.matching, broken |-> n.broken,
     submit |-> n.submit, landed |-> n.landed]

FindEnvs ==
    LET any == CHOOSE n \in NodeEnvs : n.q = "ok" /\ n.m = "ok" /\ n.saveOK
    IN IF backend = "terminus"
       THEN {WithFetch(n, "ok") : n \in NodeEnvs}
            \cup {WithFetch(any, f) : f \in QueryAnswers}
       ELSE {WithFetch(any, "ok")}

FindAndReplace ==
    \E find \in Finds, e \in FindEnvs :
        LET f == e.f
        IN Invoke([op |-> "find_and_replace", field |-> "body", find |-> find, fetch |-> f,
                   answer |-> e.m],
                  find_and_replace(Client, Nid, "body", find, Replacement, Reason, e))

AddTagToNode ==
    \E term_id \in TermIds, state \in TargetStates, e \in ScriptAnswers :
        Invoke([op |-> "add_tag_to_node", term_id |-> term_id, state |-> state,
                answer |-> e.m],
               add_tag_to_node(Client, Nid, TagField, term_id, Reason, state, e))

RemoveTagFromNode ==
    \E term_id \in TermIds, state \in TargetStates, e \in ScriptAnswers :
        Invoke([op |-> "remove_tag_from_node", term_id |-> term_id, state |-> state,
                answer |-> e.m],
               remove_tag_from_node(Client, Nid, TagField, term_id, Reason, state, e))

ReplaceTagOnNode ==
    \E old \in TermIds, state \in TargetStates, e \in ScriptAnswers :
        LET new == CHOOSE t \in TermIds : t # old
        IN Invoke([op |-> "replace_tag_on_node", term_id |-> old, new_term_id |-> new,
                   state |-> state,
                answer |-> e.m],
                  replace_tag_on_node(Client, Nid, TagField, old, new, Reason, state, e))

UpdateAltText ==
    \E e \in ScriptAnswers :
        Invoke([op |-> "update_alt_text", answer |-> e.m],
               update_alt_text(Client, Mid, AltText, Reason, e))

\* DrupalClient.authenticate
Authenticate ==
    \E l \in (IF backend = "terminus" THEN {"ok"} ELSE LoginAnswers) :
        LET a == authenticate(machine_token, session)
            t == IF backend = "terminus"
                 THEN [ok |-> a.ok,
                       st |-> [Client EXCEPT !.authenticated = authenticated \/ a.ok,
                                             !.session = a.session],
                       cmds |-> a.cmds]
                 ELSE pw_authenticate(Client, l)
        IN Invoke([op |-> "authenticate"],
                  Outcome(t.st, [type |-> "bool", value |-> t.ok], t.cmds))

\* DrupalClient.close
Close ==
    Invoke([op |-> "close"],
           Outcome(IF backend = "terminus" THEN Client ELSE pw_close(Client),
                   [type |-> "None"], <<>>))

\* DrupalClient.get_summary
GetSummary ==
    LET g == generate_slack_summary(records)
    IN Invoke([op |-> "get_summary"],
              Outcome([Client EXCEPT !.log = g.log], [type |-> "str", value |-> g.text], <<>>))

\* SummaryGenerator(client.changelog).generate_plain_summary()
PlainSummary ==
    Invoke([op |-> "plain_summary"],
           Outcome(Client, [type |-> "str", value |-> generate_plain_summary(records)], <<>>))

\* client.changelog.save(path)
SaveChangelog ==
    Invoke([op |-> "save"], Outcome(Client, save(records), <<>>))

Next ==
    \/ CreateDraftRevision
    \/ FindAndReplace
    \/ AddTagToNode
    \/ RemoveTagFromNode
    \/ ReplaceTagOnNode
    \/ UpdateAltText
    \/ Authenticate
    \/ Close
    \/ GetSummary
    \/ PlainSummary
    \/ SaveChangelog

Spec == Init /\ [][Next]_vars

----------------------------------------------------------------------------
(* client.taxonomy: the TaxonomyManager of a client, on nodes that carry
   any list of terms. *)

\* the term lists of the node the manager starts on
TagLists == {<<1>>, <<1, 2>>, <<2, 1, 3>>, <<2, 2>>}

TaxonomySites ==
    { Node(FALSE, {}, FALSE, <<>>, <<>>) }
    \cup { Node(TRUE, AllFields, TRUE, tags, <<"a">>) : tags \in TagLists }

Vocabulary == <<"tags">>
TermNames == {<<"News">>, <<>>}
NewTermIds == {1, 2, 3}

InitTaxonomy ==
    /\ backend \in {"terminus", "playwright"}
    /\ \E l \in (IF backend = "terminus" THEN Logins
                 ELSE {[session |-> FALSE, token |-> "none"]}) :
          session = l.session /\ machine_token = l.token
    /\ authenticated = FALSE
    /\ browser = 0
    /\ page = 0
    /\ launched = 0
    /\ open = {}
    /\ site \in TaxonomySites
    /\ records = <<>>
    /\ call = NoCall
    /\ result = NoResult
    /\ trace = <<>>
    /\ pre = [len |-> 0, site |-> site]
    /\ ncalls = 0
    /\ pc = [c \in Callers |-> "idle"]
    /\ held = [c \in Callers |-> 0]
    /\ running = 0
    /\ environ = [n \in EnvNames |->
                    IF n = "PANTHEON_MACHINE_TOKEN" /\ machine_token # "none"
                    THEN <<"token">> ELSE None]

ProposeAddTerm ==
    \E term_name \in TermNames :
        /\ ncalls < MaxCalls
        /\ Invoke([op |-> "propose_add_term", vocabulary |-> Vocabulary,
                term_name |-> term_name],
               propose_add_term(Client, Vocabulary, term_name, Reason))

ProposeNodeTag ==
    \E term_name \in TermNames :
        /\ ncalls < MaxCalls
        /\ Invoke([op |-> "propose_node_tag", vocabulary |-> Vocabulary,
                term_name |-> term_name],
               propose_node_tag(Client, Nid, TagField, term_name, Vocabulary, Reason))

\* replace_tag_on_node with any pair of term ids, the same id twice included
ReplaceTag ==
    \E old \in TermIds, new \in NewTermIds, e \in ScriptAnswers :
        \E o \in {replace_tag_on_node(Client, Nid, TagField, old, new, Reason, "draft", e)} :
            /\ ncalls < MaxCalls
            /\ Invoke([op |-> "replace_tag_on_node", term_id |-> old, new_term_id |-> new,
                    state |-> "draft", answer |-> e.m], o)

NextTaxonomy ==
    \/ ProposeAddTerm
    \/ ProposeNodeTag
    \/ ReplaceTag
    \/ Authenticate

SpecTaxonomy == InitTaxonomy /\ [][NextTaxonomy]_vars

----------------------------------------------------------------------------
(* Two callers on one client.  The operations are coroutines and nothing in
   the client serialises them: a caller that awaits the browser or a
   subprocess is suspended and another caller's coroutine runs.  Each caller
   runs one create_draft_revision of the body field; a step runs from one
   suspension to the next. *)

OneChange == <<<<"body", <<"b">>>>>>

InFlight == {c \in Callers : pc[c] \notin {"idle", "done"}}

\* the coroutine starts: `if not auth._authenticated`, and with the flag set
\* `page = auth.page`, up to the first await
Enter(c) ==
    /\ pc[c] = "idle"
    /\ pc' = [pc EXCEPT ![c] = IF authenticated THEN "execute" ELSE "authenticating"]
    /\ held' = [held EXCEPT ![c] = IF authenticated THEN page ELSE 0]
    /\ UNCHANGED <<backend, machine_token, session, authenticated, browser, page,
                   launched, open, site, records, call, result, trace, pre, ncalls,
                   environ, running>>

\* `await auth.authenticate()` returns.  The browser path gives up on False
\* and takes auth.page on True; drush goes on whatever was returned
FinishAuth(c) ==
    /\ pc[c] = "authenticating"
    /\ \E l \in (IF backend = "terminus" THEN {"ok"} ELSE LoginAnswers) :
          LET a == authenticate(machine_token, session)
              b == pw_authenticate(Client, l)
          IN IF backend = "terminus"
             THEN /\ authenticated' = (authenticated \/ a.ok)
                  /\ session' = a.session
                  /\ pc' = [pc EXCEPT ![c] = "execute"]
                  /\ UNCHANGED <<browser, page, launched, open, held>>
             ELSE /\ authenticated' = b.st.authenticated
                  /\ browser' = b.st.browser
                  /\ page' = b.st.page
                  /\ launched' = b.st.launched
                  /\ open' = b.st.open
                  /\ pc' = [pc EXCEPT ![c] = IF b.ok THEN "execute" ELSE "done"]
                  /\ held' = [held EXCEPT ![c] = IF b.ok THEN b.st.page ELSE 0]
                  /\ UNCHANGED session
    /\ UNCHANGED <<backend, machine_token, site, records, call, result, trace, pre, ncalls,
                   environ, running>>

\* the awaits on the backend return: the update script over the CLI, or the
\* edit form on the page the caller holds
Execute(c) ==
    /\ pc[c] = "execute"
    /\ \E saved \in BOOLEAN :
          /\ saved => site.exists /\ (backend = "terminus" => session)
          /\ site' = IF saved THEN Saved(site, ApplyChanges(site, OneChange)) ELSE site
          /\ pc' = [pc EXCEPT ![c] = IF saved THEN "record_success" ELSE "record_failure"]
    /\ UNCHANGED <<backend, machine_token, session, authenticated, browser, page, launched,
                   open, records, call, result, trace, pre, ncalls, held, environ, running>>

\* the changelog.record(...) before the return
Record(c) ==
    /\ pc[c] \in {"record_success", "record_failure"}
    /\ records' = IF pc[c] = "record_success"
                  THEN record_success(records, AuthMethod(Client), Nid, OneChange, Reason,
                                      site.vid, BaseUrl, None)
                  ELSE record_failure(records, AuthMethod(Client), Nid, OneChange, Reason,
                                      <<"failed">>)
    /\ pc' = [pc EXCEPT ![c] = "done"]
    /\ UNCHANGED <<backend, machine_token, session, authenticated, browser, page, launched,
                   open, site, call, result, trace, pre, ncalls, held, environ, running>>

NextAsync ==
    \E c \in Callers :
        \/ Enter(c)
        \/ FinishAuth(c)
        \/ Execute(c)
        \/ Record(c)

SpecAsync == Init /\ [][NextAsync]_vars

----------------------------------------------------------------------------
(* client.py, cli.py: a process that builds its client from the environment *)

\* the values a variable of the environment can have: unset, empty, set
EnvValues == {None, <<>>, <<"x">>}

\* str.rstrip("/") of a string whose slashes are pieces of their own
RECURSIVE RstripSlash(_)
RstripSlash(s) ==
    IF s # <<>> /\ s[Len(s)] = "/" THEN RstripSlash(SubSeq(s, 1, Len(s) - 1)) ELSE s

\* DrupalClient.with_terminus: TerminusAuth reads the token itself
with_terminus(env, site_name) ==
    [type |-> "DrupalClient", auth |-> "terminus", site_name |-> site_name,
     machine_token |-> env["PANTHEON_MACHINE_TOKEN"], base_url |-> None]

\* DrupalClient.with_playwright
with_playwright(base_url, username, password) ==
    [type |-> "DrupalClient", auth |-> "playwright", site_name |-> None,
     machine_token |-> None, base_url |-> RstripSlash(base_url)]

\* a from_env that looks for the browser's credentials first
from_env_browser_first(env) ==
    LET pantheon_token == env["PANTHEON_MACHINE_TOKEN"]
        pantheon_site == env["PANTHEON_SITE"]
        base_url == env["DRUPAL_BASE_URL"]
        username == env["DRUPAL_USERNAME"]
        password == env["DRUPAL_PASSWORD"]
    IN IF Truthy(base_url) /\ Truthy(username) /\ Truthy(password)
       THEN with_playwright(base_url, username, password)
       ELSE IF Truthy(pantheon_token) /\ Truthy(pantheon_site)
       THEN with_terminus(env, pantheon_site)
       ELSE Raised("ValueError")

\* DrupalClient.from_env: the client, or the exception raised
from_env(env) ==
    LET pantheon_token == env["PANTHEON_MACHINE_TOKEN"]
        pantheon_site == env["PANTHEON_SITE"]
        base_url == env["DRUPAL_BASE_URL"]
        username == env["DRUPAL_USERNAME"]
        password == env["DRUPAL_PASSWORD"]
    IN IF Truthy(pantheon_token) /\ Truthy(pantheon_site)
       THEN with_terminus(env, pantheon_site)
       ELSE IF Truthy(base_url) /\ Truthy(username) /\ Truthy(password)
       THEN with_playwright(base_url, username, password)
       ELSE Raised("ValueError")

\* the process before it has built a client: any environment, any site
InitEnv ==
    /\ environ \in [EnvNames -> EnvValues]
    /\ backend = "none"
    /\ machine_token = "none"
    /\ session \in BOOLEAN
    /\ authenticated = FALSE
    /\ browser = 0
    /\ page = 0
    /\ launched = 0
    /\ open = {}
    /\ site \in {s \in Sites : s.exists}
    /\ records = <<>>
    /\ call = NoCall
    /\ result = NoResult
    /\ trace = <<>>
    /\ pre = [len |-> 0, site |-> site]
    /\ ncalls = 0
    /\ pc = [c \in Callers |-> "idle"]
    /\ held = [c \in Callers |-> 0]
    /\ running = 0

\* what Pantheon makes of the token a new TerminusAuth holds
TokenKinds(v) == IF Truthy(v) THEN {"valid", "invalid"} ELSE {"none"}

\* client = DrupalClient.from_env()
FromEnv ==
    /\ ncalls = 0
    /\ LET r == from_env(environ)
       IN /\ result' = r
          /\ backend' = IF r.type = "DrupalClient" THEN r.auth ELSE "none"
          /\ machine_token' \in IF r.type = "DrupalClient" /\ r.auth = "terminus"
                                THEN TokenKinds(r.machine_token) ELSE {"none"}
    /\ call' = [op |-> "from_env"]
    /\ ncalls' = 1
    /\ UNCHANGED <<session, authenticated, browser, page, launched, open, site, records,
                   trace, pre, pc, held, environ, running>>

\* --auth of the command line: absent, or one of the two choices
AuthArgs == {"absent", "terminus", "playwright"}
\* --site of the command line
SiteArgs == {None, <<"site">>}

NoClient == [type |-> "None"]

\* a create_client that looks at the environment before the flag
create_client_env_first(auth_method, site_arg, env) ==
    LET site_name == IF Truthy(site_arg) THEN site_arg ELSE env["PANTHEON_SITE"]
    IN IF Truthy(site_name)
       THEN with_terminus(env, site_name)
       ELSE IF Truthy(env["DRUPAL_BASE_URL"]) /\ Truthy(env["DRUPAL_USERNAME"])
               /\ Truthy(env["DRUPAL_PASSWORD"])
       THEN with_playwright(env["DRUPAL_BASE_URL"], env["DRUPAL_USERNAME"],
                            env["DRUPAL_PASSWORD"])
       ELSE NoClient

\* cli.create_client: the client or None
create_client(auth_method, site_arg, env) ==
    LET site_name == IF Truthy(site_arg) THEN site_arg ELSE env["PANTHEON_SITE"]
        use_terminus == \/ auth_method = "terminus"
                        \/ (auth_method = "absent" /\ Truthy(site_name))
                        \/ (auth_method = "absent" /\ Truthy(env["PANTHEON_MACHINE_TOKEN"]))
        base_url == env["DRUPAL_BASE_URL"]
        username == env["DRUPAL_USERNAME"]
        password == env["DRUPAL_PASSWORD"]
    IN IF use_terminus
       THEN IF ~Truthy(site_name) THEN NoClient ELSE with_terminus(env, site_name)
       ELSE IF auth_method = "playwright" \/ auth_method = "absent"
       THEN IF ~(Truthy(base_url) /\ Truthy(username) /\ Truthy(password))
            THEN NoClient
            ELSE with_playwright(base_url, username, password)
       ELSE NoClient

\* what the backends answer to a run of the command line
CliEnvs(b) ==
    IF b = "terminus"
    THEN { [f |-> "ok", q |-> "ok", m |-> c, saveOK |-> TRUE, view |-> "ok",
            login |-> "ok", goto |-> "ok", matching |-> {}, broken |-> {},
            submit |-> "banner", landed |-> "node"] :
             c \in {"ok", "noise", "nonzero"} }
    ELSE { [f |-> "ok", q |-> "ok", m |-> "ok", saveOK |-> TRUE, view |-> "ok",
            login |-> l, goto |-> "ok", matching |-> {1, 3}, broken |-> {},
            submit |-> sb, landed |-> "node"] :
             l \in {"ok", "rejected"}, sb \in {"banner", "error"} }

\* the process ends: code 0 when run_command returns, 1 from sys.exit(1) or
\* from an exception that leaves main()
Exited(st, client, code, value, cmds) ==
    [st |-> st, cmds |-> cmds,
     result |-> [type |-> "exit", code |-> code, client |-> client, value |-> value]]

\* cli.test_auth: returns in every case
test_auth(st, auth_method, site_arg, env, tk, l) ==
    LET site_name == IF Truthy(site_arg) THEN site_arg ELSE env["PANTHEON_SITE"]
        a == authenticate(tk, st.session)
        status == IF a.ok THEN <<DrushCmd("status")>> ELSE <<>>
        b == pw_authenticate(st, l)
    IN IF (auth_method = "terminus" \/ auth_method = "absent") /\ Truthy(site_name)
       THEN Exited([st EXCEPT !.session = a.session], "terminus", 0,
                   [type |-> "bool", value |-> a.ok], a.cmds \o status)
       ELSE IF (auth_method = "playwright" \/ auth_method = "absent")
               /\ Truthy(env["DRUPAL_BASE_URL"]) /\ Truthy(env["DRUPAL_USERNAME"])
               /\ Truthy(env["DRUPAL_PASSWORD"])
       THEN Exited(pw_close(b.st), "playwright", 0, [type |-> "bool", value |-> b.ok],
                   b.cmds)
       ELSE Exited(st, "none", 0, [type |-> "None"], <<>>)

\* client.close() of the finally clause
closed(st) == IF st.backend = "terminus" THEN st ELSE pw_close(st)

\* cli.get_node over client.auth.get_node
cli_get_node(st, e) ==
    LET t == get_node(st, e.m)
        b == pw_get_node(st, e.login, e.goto)
    IN IF st.backend = "terminus"
       THEN Outcome(t.st, [type |-> "node", found |-> t.node], t.cmds)
       ELSE Outcome(b.st, [type |-> "node", found |-> b.node], b.cmds)

\* the subcommand's operation on the client that was built
client_op(made, command, e) ==
    IF command = "update-node"
    THEN create_draft_revision(made, Nid, OneChange, Reason, e)
    ELSE IF command = "find-replace"
    THEN find_and_replace(made, Nid, "body", <<"a">>, Replacement, Reason, e)
    ELSE cli_get_node(made, e)

\* cli.run_command for the subcommands that work on a client: sys.exit(1)
\* without one, else the operation with outcome o and the close()
run_on_client(st, client, o) ==
    IF client = NoClient
    THEN Exited(st, "none", 1, [type |-> "None"], <<>>)
    ELSE Exited(closed(o.st), client.auth,
                IF o.result.type = "exception" THEN 1 ELSE 0, o.result, o.cmds)

\* the step of the process that one run of the command line is
Run(c, o) ==
    /\ ncalls = 0
    /\ ncalls' = 1
    /\ backend' = o.st.backend
    /\ machine_token' = o.st.token
    /\ session' = o.st.session
    /\ authenticated' = o.st.authenticated
    /\ browser' = o.st.browser
    /\ page' = o.st.page
    /\ launched' = o.st.launched
    /\ open' = o.st.open
    /\ site' = o.st.site
    /\ records' = o.st.log
    /\ running' = o.st.running
    /\ call' = c
    /\ result' = o.result
    /\ trace' = o.cmds
    /\ pre' = [len |-> Len(records), site |-> site]
    /\ UNCHANGED <<pc, held, environ>>

CliCall(command, auth_method, site_arg) ==
    [op |-> "cli", command |-> command, auth |-> auth_method, site |-> site_arg]

\* the backend create_client settles on, whether or not it can be built
Selected(auth_method, site_arg, env) ==
    LET client == create_client(auth_method, site_arg, env)
    IN IF client # NoClient THEN client.auth
       ELSE IF auth_method = "terminus"
               \/ (auth_method = "absent" /\ Truthy(env["PANTHEON_MACHINE_TOKEN"]))
       THEN "terminus" ELSE "playwright"

OnClient(command) ==
    \E auth_method \in AuthArgs, site_arg \in SiteArgs :
      \E tk \in TokenKinds(environ["PANTHEON_MACHINE_TOKEN"]),
         e \in CliEnvs(Selected(auth_method, site_arg, environ)) :
        LET client == create_client(auth_method, site_arg, environ)
        IN \E o \in (IF client = NoClient
                     THEN {Outcome(Client, [type |-> "None"], <<>>)}
                     ELSE {client_op([Client EXCEPT !.backend = client.auth, !.token = tk],
                                     command, e)}) :
              Run(CliCall(command, auth_method, site_arg),
                  run_on_client(Client, client, o))

CliUpdateNode == OnClient("update-node")
CliFindReplace == OnClient("find-replace")
CliGetNode == OnClient("get-node")

CliTestAuth ==
    \E auth_method \in AuthArgs, site_arg \in SiteArgs :
      \E tk \in TokenKinds(environ["PANTHEON_MACHINE_TOKEN"]), l \in {"ok", "rejected"} :
        Run(CliCall("test-auth", auth_method, site_arg),
            test_auth(Client, auth_method, site_arg, environ, tk, l))

\* `summary` prints that there are no changes and returns
CliSummary ==
    Run(CliCall("summary", "absent", None), Exited(Client, "none", 0, [type |-> "None"], <<>>))

\* no subcommand: the help text and sys.exit(1)
CliNoCommand ==
    Run(CliCall("", "absent", None), Exited(Client, "none", 1, [type |-> "None"], <<>>))

NextEnv ==
    \/ FromEnv
    \/ CliUpdateNode
    \/ CliFindReplace
    \/ CliGetNode
    \/ CliTestAuth
    \/ CliSummary
    \/ CliNoCommand

SpecEnv == InitEnv /\ [][NextEnv]_vars

----------------------------------------------------------------------------
(* What the claims speak of *)

MutationOps ==
    {"create_draft_revision", "find_and_replace", "add_tag_to_node",
     "remove_tag_from_node", "replace_tag_on_node", "update_alt_text"}

TagOps == {"add_tag_to_node", "remove_tag_from_node", "replace_tag_on_node"}

\* the commands that change the site
MutationCmds ==
    {DrushCmd("update_node"), DrushCmd("add_tag_to_node"),
     DrushCmd("remove_tag_from_node"), DrushCmd("replace_tag_on_node"),
     DrushCmd("update_media"), <<"click", "save">>}

CountIn(s, set) == Cardinality({i \in 1..Len(s) : s[i] \in set})

\* the last invocation returned a result (it did not raise)
Returned == result.type \in {"DraftRevision", "MediaUpdate"}

\* the records the last invocation appended
Appended == SubSeq(records, pre.len + 1, Len(records))

\* the last invocation sent its mutation to the backend
SentMutation == CountIn(trace, MutationCmds) > 0

\* the last invocation is a find_and_replace that stopped at its own check
StoppedAtCheck ==
    /\ call.op = "find_and_replace"
    /\ trace = <<>> \/ trace[Len(trace)] = DrushCmd("field_value")

\* the CLI ran the mutation script and handed its output on: there was a
\* session and the command neither timed out nor exited non-zero
Delivered ==
    /\ backend = "terminus"
    /\ session
    /\ SentMutation
    /\ call.answer \notin {"nonzero", "timeout"}

\* the last record of the log
LastRecord == records[Len(records)]

----------------------------------------------------------------------------
(* C1 *)

\* C1: every invocation of a mutation operation (find_and_replace once it has
\* sent its mutation to the backend) appends exactly one ChangeRecord: the
\* log is one longer after the call than before it.
C1_OneRecordPerInvocation ==
    (call.op \in MutationOps /\ (call.op = "find_and_replace" => SentMutation))
        => Len(records) = pre.len + 1

----------------------------------------------------------------------------
(* C2 *)

\* C2: the records an invocation appends all carry the success flag of the
\* result it returns: none is a success record beside a failure result, none
\* a failure record beside a success result, and an invocation that raises
\* appends nothing.
C2_RecordMatchesResult ==
    (call.op \in MutationOps /\ Len(records) > pre.len)
        => /\ Returned
           /\ \A i \in (pre.len + 1)..Len(records) : records[i].success = result.success

\* a two-field update over the CLI that failed and recorded both fields
C2_Witness ==
    /\ call.op = "create_draft_revision"
    /\ Len(call.changes) = 2
    /\ Len(records) = pre.len + 2
    /\ Returned /\ ~result.success
    /\ \A i \in (pre.len + 1)..Len(records) : ~records[i].success

----------------------------------------------------------------------------
(* C3 *)

\* C3: whenever a node, taxonomy or media operation returns a failure result
\* (find_and_replace: once past its own search), the log has gained a failure
\* record whose error is the result's error; no failure result goes unrecorded.
C3_FailureIsRecorded ==
    (call.op \in MutationOps /\ ~StoppedAtCheck /\ Returned /\ ~result.success)
        => /\ Len(records) > pre.len
           /\ ~LastRecord.success
           /\ Truthy(LastRecord.error)
           /\ LastRecord.error = result.error

----------------------------------------------------------------------------
(* C4 *)

\* C4: when the CLI succeeds and the script's output is not JSON, is JSON
\* that is no object, or is an object with success = true and no revision_id,
\* the operation returns a failure result and no exception leaves it.
C4_MalformedIsFailure ==
    (call.op \in MutationOps /\ Delivered /\ call.answer \in {"noise", "array", "norevid"})
        => Returned /\ ~result.success

----------------------------------------------------------------------------
(* C5 *)

\* the CLI did not run the mutation script to an exit code of 0
CliFailed ==
    backend = "terminus" /\ SentMutation
    /\ (~session \/ call.answer \in {"nonzero", "timeout"})

\* C5: within one invocation the mutation script is sent at most once; a CLI
\* call that times out or exits non-zero is seen as a failed CommandResult,
\* the operation returns a failure result for it, and sends nothing after it.
C5_FailedCallNotRetried ==
    call.op \in MutationOps
        => /\ CountIn(trace, MutationCmds) <= 1
           /\ CliFailed => /\ Returned /\ ~result.success
                           /\ result.error[1] = "Drush failed: "
                           /\ trace[Len(trace)] \in MutationCmds

\* a tag removal whose CLI call ran past the timeout
C5_Witness ==
    /\ call.op = "remove_tag_from_node"
    /\ session /\ call.answer = "timeout" /\ SentMutation
    /\ Returned /\ ~result.success
    /\ CountIn(trace, MutationCmds) = 1

----------------------------------------------------------------------------
(* C6 *)

\* the query for the field's value was answered
Fetched == backend = "terminus" /\ session /\ call.fetch = "ok"

\* the current value find_and_replace obtained
FetchedValue ==
    IF Fetched
    THEN ScriptFieldValue(pre.site, call.field).out
    ELSE <<>>

NotFoundError == <<"'">> \o call.find \o <<"' not found in ", call.field>>

\* what find_and_replace does not do when it stops at its own check
NothingAttempted ==
    StoppedAtCheck /\ ~SentMutation /\ Len(records) = pre.len /\ site = pre.site

\* C6 as stated: for any current value of the field without the search text,
\* the empty value included, find_and_replace fails with the not-found error,
\* does not call create_draft_revision, sends no mutation and appends no record.
C6_Original ==
    (call.op = "find_and_replace" /\ Fetched /\ ~Contains(FetchedValue, call.find))
        => /\ Returned /\ ~result.success
           /\ result.error = NotFoundError
           /\ NothingAttempted

\* C6 amended: a non-empty current value without the search text gives the
\* not-found error, an empty or unobtainable one gives "Could not get current
\* value of <field>"; in both cases create_draft_revision is not called, no
\* mutation is sent and no record is appended.
C6_Amended ==
    (call.op = "find_and_replace" /\ ~Contains(FetchedValue, call.find))
        => /\ Returned /\ ~result.success
           /\ result.error = IF FetchedValue = <<>>
                             THEN <<"Could not get current value of ", call.field>>
                             ELSE NotFoundError
           /\ NothingAttempted

\* a search for text the non-empty body does not hold
C6_Witness ==
    /\ call.op = "find_and_replace"
    /\ FetchedValue # <<>> /\ ~Contains(FetchedValue, call.find)
    /\ result.error = NotFoundError

----------------------------------------------------------------------------
(* C7 *)

\* the node is already as the call wants it: the term to add is among the
\* field's references, the term to remove is not
AlreadyAsWanted ==
    /\ backend = "terminus"
    /\ pre.site.exists /\ TagField \in pre.site.fields
    /\ \/ call.op = "add_tag_to_node" /\ InSeq(call.term_id, pre.site.tags)
       \/ call.op = "remove_tag_from_node" /\ ~InSeq(call.term_id, pre.site.tags)

\* the script's own output reached the client
OwnAnswer == Delivered /\ call.answer = "ok"

\* the node can take the target state
StateAvailable ==
    /\ "moderation_state" \in pre.site.fields
    /\ pre.site.workflow
    /\ call.state \in WorkflowStates

\* C7 as stated: adding a term already present, or removing one not present,
\* returns success with the existing revision id and changes nothing.
C7_Original ==
    (AlreadyAsWanted /\ OwnAnswer)
        => /\ Returned /\ result.success
           /\ result.revision_id = pre.site.vid
           /\ site = pre.site

\* C7 amended: over the CLI such a call never changes the node's tags or
\* revision; it returns success with the existing revision id when the script's
\* output reaches the client and the node can take the target state, and a
\* failure when the output arrives and the node cannot.  A call that added
\* (removed) the term leaves it present (absent), so a second call finds the
\* node as the first left it.
C7_Amended ==
    /\ AlreadyAsWanted
         => /\ site = pre.site
            /\ (OwnAnswer /\ StateAvailable)
                 => Returned /\ result.success /\ result.revision_id = pre.site.vid
            /\ (OwnAnswer /\ ~StateAvailable) => Returned /\ ~result.success
    /\ (call.op \in {"add_tag_to_node", "remove_tag_from_node"} /\ OwnAnswer
        /\ Returned /\ result.success)
         => (InSeq(call.term_id, site.tags) <=> call.op = "add_tag_to_node")

\* term 2 is on the node only once an earlier call put it there: adding it
\* again succeeds with the revision that call made
C7_Witness ==
    /\ call.op = "add_tag_to_node" /\ call.term_id = 2
    /\ AlreadyAsWanted /\ OwnAnswer
    /\ Returned /\ result.success
    /\ result.revision_id = pre.site.vid /\ pre.site.vid > 1
    /\ site = pre.site

----------------------------------------------------------------------------
(* C8 *)

\* C8: remove_tag_from_node and replace_tag_on_node return a failure result
\* with a non-empty error and leave the node's tags and revision as they were
\* whenever the node has no moderation_state field or the target state is not
\* among the workflow's states.
C8_FailsWithoutTargetState ==
    (/\ call.op \in {"remove_tag_from_node", "replace_tag_on_node"}
     /\ backend = "terminus"
     /\ pre.site.exists /\ TagField \in pre.site.fields
     /\ "moderation_state" \notin pre.site.fields \/ call.state \notin WorkflowStates)
        => /\ Returned /\ ~result.success
           /\ Truthy(result.error)
           /\ site = pre.site

----------------------------------------------------------------------------
(* C9 *)

\* C9: in the object to_json makes of the log, successful + failed is
\* total_changes and total_changes is the length of the records array;
\* get_successful and get_failed part the log: every record is in exactly one.
C9_CountsAddUp ==
    LET j == to_json(records)
    IN /\ j.successful + j.failed = j.total_changes
       /\ j.total_changes = Len(j.records)
       /\ Len(get_successful(records)) + Len(get_failed(records)) = Len(records)
       /\ \A i \in 1..Len(records) :
              InSeq(records[i], get_successful(records))
                  # InSeq(records[i], get_failed(records))

\* a log holding a success without a revision id next to a failure
C9_Witness ==
    /\ \E i \in 1..Len(records) : records[i].success /\ records[i].revision_id = NoneInt
    /\ \E i \in 1..Len(records) : ~records[i].success
    /\ to_json(records).total_changes >= 2

----------------------------------------------------------------------------
(* C10 *)

\* a mutation of the one field body over the CLI that returned success
OneFieldDone ==
    /\ backend = "terminus"
    /\ \/ call.op = "create_draft_revision" /\ Len(call.changes) = 1
       \/ call.op = "find_and_replace"
    /\ Returned /\ result.success

\* the text the call puts into the field
NewText ==
    IF call.op = "create_draft_revision" THEN call.changes[1][2]
    ELSE Replace(pre.site.body, call.find, Replacement)

----------------------------------------------------------------------------
(* C11 *)

\* what the client holds of its backend, and what the backend edits
BackendState == <<session, authenticated, browser, page, launched, open, site>>

\* C11: on the browser backend each of the three tag operations returns a
\* failure whose error names the operation as supported only via Terminus,
\* sends no command at all (no login, no navigation, no backend call) and
\* leaves the backend state and the log as they were.
C11_TagOpsNeedTerminus ==
    [][(backend = "playwright" /\ call'.op \in TagOps)
          => /\ result'.type = "DraftRevision" /\ ~result'.success
             /\ result'.error = <<call'.op, " only supported via Terminus">>
             /\ trace' = <<>>
             /\ UNCHANGED <<BackendState, records>>]_vars

\* a tag replacement asked of a browser client that is logged in
C11_Witness ==
    /\ backend = "playwright" /\ authenticated /\ browser # 0
    /\ call.op = "replace_tag_on_node"
    /\ Returned /\ ~result.success
    /\ result.error = <<"replace_tag_on_node", " only supported via Terminus">>
    /\ trace = <<>>

----------------------------------------------------------------------------
(* C12 *)

\* C12: every browser authenticate() launched is released by close(): once
\* close() has returned, no launched browser is still open, whatever calls
\* came before it (failed logins, failed navigation, repeated authenticate).
C12_AllReleasedAtClose ==
    call.op = "close" => open = {}

----------------------------------------------------------------------------
(* C13 *)

\* C13: at most one operation is in flight on a client at any time: while
\* one caller's operation is between its start and its return, no other
\* caller's operation has started and not returned, and the page an
\* operation works on is the client's page, not one another operation has
\* replaced meanwhile.
C13_OneInFlight ==
    /\ Cardinality(InFlight) <= 1
    /\ \A c \in InFlight : held[c] \in {0, page}

----------------------------------------------------------------------------
(* C14 *)

\* the variable is set to a non-empty value
IsSet(name) == Truthy(environ[name])
HasTerminusEnv == IsSet("PANTHEON_MACHINE_TOKEN") /\ IsSet("PANTHEON_SITE")
HasBrowserEnv ==
    IsSet("DRUPAL_BASE_URL") /\ IsSet("DRUPAL_USERNAME") /\ IsSet("DRUPAL_PASSWORD")

\* C14: from_env builds a remote-CLI client exactly when the token and the
\* site name are both non-empty, otherwise a browser client exactly when
\* base URL, user name and password are all non-empty, and otherwise raises
\* the configuration error and builds no client; the client built has one
\* backend.
C14_FromEnvSelectsBackend ==
    call.op = "from_env"
        => /\ (result.type = "DrupalClient" /\ result.auth = "terminus") <=> HasTerminusEnv
           /\ (result.type = "DrupalClient" /\ result.auth = "playwright")
                 <=> (~HasTerminusEnv /\ HasBrowserEnv)
           /\ result = Raised("ValueError") <=> (~HasTerminusEnv /\ ~HasBrowserEnv)
           /\ backend = (IF result.type = "DrupalClient" THEN result.auth ELSE "none")
           /\ result.type = "DrupalClient" => result.auth \in {"terminus", "playwright"}

\* both sets of credentials are there and the remote CLI was taken
C14_Witness ==
    /\ call.op = "from_env"
    /\ HasTerminusEnv /\ HasBrowserEnv
    /\ backend = "terminus"
    /\ result.type = "DrupalClient"

----------------------------------------------------------------------------
(* C15 *)

Subcommands == {"update-node", "find-replace", "get-node", "test-auth", "summary"}

\* --site, or PANTHEON_SITE, names a site
HasSite == Truthy(call.site) \/ IsSet("PANTHEON_SITE")

\* what the backend the run selects needs is not all there.  test-auth with
\* no --auth tries either backend; summary needs none
ConfigMissing ==
    IF call.command = "summary" THEN FALSE
    ELSE IF call.command = "test-auth"
    THEN /\ call.auth = "terminus" => ~HasSite
         /\ call.auth = "playwright" => ~HasBrowserEnv
         /\ call.auth = "absent" => ~HasSite /\ ~HasBrowserEnv
    ELSE IF Selected(call.auth, call.site, environ) = "terminus"
    THEN ~HasSite ELSE ~HasBrowserEnv

\* C15: a run of a subcommand (update-node, find-replace, get-node,
\* test-auth, summary) ends with exit code 1 whenever the configuration its
\* backend requires is missing, and with 0 when the configuration is there
\* and the operation returned.
C15_ExitCodes ==
    (call.op = "cli" /\ call.command \in Subcommands)
        => /\ ConfigMissing => result.code = 1
           /\ (~ConfigMissing /\ result.value.type # "exception") => result.code = 0

----------------------------------------------------------------------------
(* C16 *)

\* the commands authenticate() itself runs
AuthCmds ==
    {WhoamiCmd, LoginCmd, <<"browser", "launch">>, <<"goto", "login">>, <<"click", "login">>}

\* the operation had to authenticate and authenticate() returned False: the
\* flag is still unset after an operation that logs in first (the tag
\* operations, find_and_replace and update_alt_text of a browser client
\* return before any login)
AuthFailed ==
    /\ call.op \in MutationOps
    /\ ~authenticated
    /\ backend = "playwright" => call.op = "create_draft_revision"

\* C16: when an operation needs to authenticate and authenticate() returns
\* False, the operation stops there: it sends no query and no mutation
\* command afterwards, and it returns a failure result.
C16_StopsAfterFailedLogin ==
    AuthFailed
        => /\ \A i \in 1..Len(trace) : trace[i] \in AuthCmds
           /\ result.type # "exception"
           /\ ~result.success

----------------------------------------------------------------------------
(* C17 *)

\* C17: a subprocess that exceeds its timeout is killed: once _run_command
\* has returned the timed-out result, and so whenever an operation has
\* returned, no process it spawned is still running.
C17_TimedOutIsKilled ==
    running = 0

----------------------------------------------------------------------------
(* C18 *)

\* log a is the beginning of log b
IsPrefix(a, b) == Len(a) <= Len(b) /\ SubSeq(b, 1, Len(a)) = a

\* C18: the ChangeLog is append-only and ordered: no operation of the
\* client, of its editors, of to_json, save or the summary generator removes,
\* reorders or modifies a record, so the log before any step is a prefix of
\* the log after it; and the log grows by record() alone, each adding
\* exactly one record at the end.
C18_AppendOnly ==
    [][/\ IsPrefix(records, records')
       /\ \A i \in (Len(records) + 1)..Len(records') :
             SubSeq(records', 1, i) = record(SubSeq(records', 1, i - 1), records'[i])]_vars

\* a second record was appended behind the first, and the log was then read
C18_Witness ==
    /\ Len(records) = 2
    /\ records[1].success /\ ~records[2].success
    /\ call.op \in {"get_summary", "save"}

----------------------------------------------------------------------------
(* C19 *)

\* the edit form was worked through, up to the click on Save
FormFilled ==
    /\ call.op = "create_draft_revision"
    /\ backend = "playwright"
    /\ \E p \in 1..Len(trace) : trace[p] = <<"click", "save">>

\* the fields of the invocation's changes
FieldsOf(changes) == {changes[i][1] : i \in 1..Len(changes)}

\* the selectors of the field on which the step `kind` was made
Events(kind, field) ==
    {i \in 1..Len(Selectors) :
        \E p \in 1..Len(trace) : trace[p] = <<kind, field, ToString(i)>>}

\* position p of the trace is a step on one of the field's selectors
IsProbe(p, field) == Len(trace[p]) = 3 /\ trace[p][2] = field
SelOf(p) == CHOOSE i \in 1..Len(Selectors) : ToString(i) = trace[p][3]

\* the steps on the field's selectors go down the priority order
InOrder(field) ==
    \A p, q \in 1..Len(trace) :
        (p < q /\ IsProbe(p, field) /\ IsProbe(q, field)) => SelOf(p) <= SelOf(q)

\* the selectors of the field that match an element, and those of them
\* whose fill() goes through
MatchingOf(field) == IF field = "body" THEN call.matching ELSE {}
FillableOf(field) == IF field = "body" THEN call.matching \ call.broken ELSE {}

\* the selectors 1..i of the set's first element i, all of them for an
\* empty set
UpToFirst(set) ==
    {i \in 1..Len(Selectors) : \A j \in set : i <= j}

\* C19 as stated: for each field the selectors are tried in their fixed
\* order, the first selector that matches is the one filled, at most one
\* selector is filled, and no selector is tried after one that matched.
C19_Original ==
    FormFilled
        => \A f \in FieldsOf(call.changes) :
              /\ InOrder(f)
              /\ Cardinality(Events("fill", f)) <= 1
              /\ Events("count", f) = UpToFirst(MatchingOf(f))
              /\ Events("fill", f) = MatchingOf(f) \cap UpToFirst(MatchingOf(f))

\* C19, amended: for each field the selectors are tried in their fixed
\* order; a selector that matches is filled, and a matching selector whose
\* fill raises is passed over for the next one.  The selector filled is the
\* first that matches and can be filled, at most one is filled, and no
\* selector is tried after the one that was filled.
C19_Amended ==
    FormFilled
        => \A f \in FieldsOf(call.changes) :
              /\ InOrder(f)
              /\ Cardinality(Events("fill", f)) <= 1
              /\ Events("count", f) = UpToFirst(FillableOf(f))
              /\ Events("fill", f) = FillableOf(f) \cap UpToFirst(FillableOf(f))
              /\ Events("fill_raised", f)
                    = (MatchingOf(f) \ FillableOf(f)) \cap UpToFirst(FillableOf(f))

\* the first selector matched but could not be filled, and the third was
\* filled and saved
C19_Witness ==
    /\ FormFilled
    /\ call.matching = {1, 3} /\ call.broken = {1}
    /\ Events("fill_raised", "body") = {1}
    /\ Events("fill", "body") = {3}
    /\ Events("count", "body") = {1, 2, 3}
    /\ Returned /\ result.success

----------------------------------------------------------------------------
(* C20 *)

\* the URLs a client can have for its site
SiteUrls == {get_site_url("ok"), get_site_url("fail"), BaseUrl}

\* the entity the invocation worked on
EntityId == IF call.op = "update_alt_text" THEN Mid ELSE Nid

\* url is a site URL followed by a path that names the entity and, behind
\* it, the revision
DerivedFrom(url, id, rev) ==
    \E base \in SiteUrls :
        /\ Len(url) > Len(base)
        /\ SubSeq(url, 1, Len(base)) = base
        /\ \E p, q \in (Len(base) + 1)..Len(url) :
              p < q /\ <<url[p]>> = Str(id) /\ <<url[q]>> = Str(rev)

\* C20: after every successful operation the review URL is made of the site
\* URL, the entity id and the revision id, it is not empty, and the result
\* returned and the success records appended carry the same URL.
C20_ReviewUrl ==
    (call.op \in MutationOps /\ Returned /\ result.success)
        => /\ Truthy(result.revision_url)
           /\ Len(records) > pre.len
           /\ \A i \in (pre.len + 1)..Len(records) :
                 /\ records[i].revision_url = result.revision_url
                 /\ records[i].revision_id # NoneInt
                 /\ DerivedFrom(result.revision_url, EntityId, records[i].revision_id)

----------------------------------------------------------------------------
(* C21 *)

\* a report was made of the log
Reported == call.op \in {"get_summary", "plain_summary"}

\* the heading the line at position i of the report stands under
SectionAt(i) ==
    LET hs == {j \in 1..i : result.value[j].kind = "section"}
    IN IF hs = {} THEN "none"
       ELSE result.value[CHOOSE j \in hs : \A k \in hs : k <= j].name

\* the record rows of the report under the heading, in order
RowsUnder(name) ==
    LET RECURSIVE Take(_)
        Take(i) == IF i > Len(result.value) THEN <<>>
                   ELSE (IF result.value[i].kind = "row" /\ SectionAt(i) = name
                         THEN <<result.value[i]>> ELSE <<>>) \o Take(i + 1)
    IN Take(1)

\* the rows are those of the records, one each and in the log's order
RowsOf(rows, rs) ==
    /\ Len(rows) = Len(rs)
    /\ \A i \in 1..Len(rs) :
          /\ rows[i].target = rs[i].target
          /\ "field" \in DOMAIN rows[i] => rows[i].field = rs[i].field
          /\ "error" \in DOMAIN rows[i] => rows[i].error = rs[i].error

\* C21: a report of the log puts every success record in one row of the
\* successful section and every failure record in one row of the failed
\* section, and no record anywhere else; the counts of its header are the
\* numbers of rows of the two sections; the report of an empty log has no
\* record rows.
C21_ReportSections ==
    Reported
        => /\ RowsOf(RowsUnder("successful"), SelectSeq(records, LAMBDA r : r.success))
           /\ RowsOf(RowsUnder("failed"), SelectSeq(records, LAMBDA r : ~r.success))
           /\ RowsUnder("none") = <<>>
           /\ \A i \in 1..Len(result.value) :
                 result.value[i].kind = "header"
                    => /\ result.value[i].successful = Len(RowsUnder("successful"))
                       /\ result.value[i].failed = Len(RowsUnder("failed"))
           /\ records = <<>>
                 => \A i \in 1..Len(result.value) : result.value[i].kind # "row"

\* a plain report of a log with a success and a failure in it
C21_Witness ==
    /\ call.op = "plain_summary"
    /\ Len(RowsUnder("successful")) = 1
    /\ Len(RowsUnder("failed")) = 1
    /\ Len(records) = 2

----------------------------------------------------------------------------
(* C22 *)

\* a backend that answers every command and saves what it is asked to save
Cooperative ==
    [f |-> "ok", q |-> "ok", m |-> "ok", saveOK |-> TRUE, view |-> "ok", login |-> "ok",
     goto |-> "ok", matching |-> {}, broken |-> {}, submit |-> "banner", landed |-> "node"]

\* a remote-CLI client with a session, facing the site as it was before the
\* invocation
CliTwin ==
    [Client EXCEPT !.backend = "terminus", !.session = TRUE, !.authenticated = FALSE,
                   !.site = pre.site, !.log = <<>>]

\* what the same request returns on that client
CliOutcome ==
    CASE call.op = "create_draft_revision" ->
            create_draft_revision(CliTwin, Nid, call.changes, Reason, Cooperative)
      [] call.op = "find_and_replace" ->
            find_and_replace(CliTwin, Nid, call.field, call.find, Replacement, Reason,
                             Cooperative)
      [] call.op = "add_tag_to_node" ->
            add_tag_to_node(CliTwin, Nid, TagField, call.term_id, Reason, call.state,
                            Cooperative)
      [] call.op = "remove_tag_from_node" ->
            remove_tag_from_node(CliTwin, Nid, TagField, call.term_id, Reason, call.state,
                                 Cooperative)
      [] OTHER ->
            replace_tag_on_node(CliTwin, Nid, TagField, call.term_id, call.new_term_id,
                                Reason, call.state, Cooperative)

\* the browser met no failure of its own: it logged in and the form was
\* submitted
BrowserCooperated ==
    call.op = "create_draft_revision"
        => /\ FormFilled
           /\ result.success \/ result.error = <<"No success message found after save">>

\* C22: for the same request against the same site content, an update, a
\* find-and-replace or a tag operation succeeds on the browser backend
\* exactly when it succeeds on the remote-CLI backend.
C22_SameOutcomeOnBothBackends ==
    (/\ backend = "playwright"
     /\ call.op \in {"create_draft_revision", "find_and_replace"} \cup TagOps
     /\ Returned
     /\ BrowserCooperated)
        => result.success = CliOutcome.result.success

----------------------------------------------------------------------------
(* C23 *)

\* the subcommands that build a client with create_client
ClientCommands == {"update-node", "find-replace", "get-node"}

\* C23: in create_client the --auth flag forces the backend: with --auth
\* playwright the outcome is a browser client or the configuration error,
\* never a remote-CLI client, whatever PANTHEON_* holds; with --auth terminus
\* it is a remote-CLI client or the configuration error, never a browser
\* client.  Without the flag the remote CLI is the backend taken whenever a
\* site is named or PANTHEON_MACHINE_TOKEN is set: no browser client is
\* built then, and with a site the remote-CLI client is.
C23_FlagForcesBackend ==
    (call.op = "cli" /\ call.command \in ClientCommands)
        => /\ backend = result.client
           /\ result.client = "none" => result.code = 1
           /\ call.auth = "playwright" => result.client \in {"playwright", "none"}
           /\ call.auth = "terminus" => result.client \in {"terminus", "none"}
           /\ (call.auth = "absent" /\ (HasSite \/ IsSet("PANTHEON_MACHINE_TOKEN")))
                 => /\ result.client \in {"terminus", "none"}
                    /\ HasSite => result.client = "terminus"

\* --auth playwright with the Pantheon variables set as well
C23_Witness ==
    /\ call.op = "cli" /\ call.command = "update-node"
    /\ call.auth = "playwright"
    /\ HasTerminusEnv /\ HasBrowserEnv
    /\ result.client = "playwright"

----------------------------------------------------------------------------
(* C24 *)

\* C24: every ChangeRecord's auth_method is "terminus" or "playwright" and
\* names the backend of the client that created it, the value of
\* DrupalClient.auth_method, for every operation that records, successful
\* or not.
C24_AuthMethodNamesBackend ==
    \A i \in 1..Len(records) :
        /\ records[i].auth_method \in {"terminus", "playwright"}
        /\ records[i].auth_method = AuthMethod(Client)

----------------------------------------------------------------------------
(* C25 *)

ProposeOps == {"propose_add_term", "propose_node_tag"}

\* C25: propose_add_term and propose_node_tag only log.  Each call appends
\* exactly one ChangeRecord, a successful one of that operation, sends no
\* command to the backend, and leaves the backend state, the node's terms
\* and tags included, as it was.
C25_ProposalsOnlyLog ==
    [][call'.op \in ProposeOps
          => /\ Len(records') = Len(records) + 1
             /\ SubSeq(records', 1, Len(records)) = records
             /\ records'[Len(records')].success
             /\ records'[Len(records')].operation = call'.op
             /\ records'[Len(records')].new_value = call'.term_name
             /\ trace' = <<>>
             /\ result'.type = "TaxonomyProposal" /\ result'.success
             /\ UNCHANGED <<BackendState, running>>]_vars

\* a tag proposed on a node right after one of its tags was replaced
C25_Witness ==
    /\ call.op = "propose_node_tag"
    /\ Len(records) = 2
    /\ records[1].operation = "replace_tag_on_node" /\ records[1].success
    /\ records[2].operation = "propose_node_tag" /\ records[2].success
    /\ session /\ site = pre.site /\ trace = <<>>

----------------------------------------------------------------------------
(* C26 *)

\* how often v occurs in xs
Occurrences(v, xs) == Cardinality({i \in 1..Len(xs) : xs[i] = v})

\* `after` is `before` with old replaced by new: new once, old gone unless
\* it is new, nothing twice, every other term kept and none invented
ReplacedIn(before, after, old, new) ==
    /\ Occurrences(new, after) = 1
    /\ old # new => ~InSeq(old, after)
    /\ \A i \in 1..Len(after) : Occurrences(after[i], after) = 1
    /\ \A i \in 1..Len(before) : before[i] # old => InSeq(before[i], after)
    /\ \A i \in 1..Len(after) : after[i] = new \/ InSeq(after[i], before)

C26_WitnessAbsent ==
    /\ call.op = "replace_tag_on_node" /\ OwnAnswer
    /\ pre.site.tags = <<1>> /\ call.term_id = 2
    /\ ~result.success /\ result.error = <<"Old tag not present on node">>

----------------------------------------------------------------------------
(* C27 *)

IsDrush(c) == Len(c) = 2 /\ c[1] = "drush"

\* where the drush() call that sent the command at p began: after the
\* Drush command before it
DrushStart(t, p) ==
    LET earlier == {q \in 1..(p - 1) : IsDrush(t[q])}
    IN IF earlier = {} THEN 1 ELSE (CHOOSE q \in earlier : \A r \in earlier : r <= q) + 1

\* the drush() call that sent the command at p called authenticate()
AuthCalled(t, p) == \E q \in DrushStart(t, p)..(p - 1) : t[q] = WhoamiCmd

\* C27: on the remote-CLI backend authenticate() returns True exactly when
\* whoami succeeds with output or the token login succeeds, and attempts no
\* login without a token; the authenticated flag is true exactly when an
\* earlier authenticate() returned True and is never reset; drush() calls
\* authenticate() exactly when the flag is false before its command.
C27_TerminusAuth ==
    [][backend = "terminus"
          => /\ call'.op = "authenticate"
                  => /\ result'.value <=> (session \/ machine_token = "valid")
                     /\ trace'[1] = WhoamiCmd
                     /\ (LoginCmd \in {trace'[q] : q \in 1..Len(trace')})
                           <=> (~session /\ machine_token # "none")
             /\ machine_token = "none"
                  => \A q \in 1..Len(trace') : trace'[q] # LoginCmd
             /\ authenticated => authenticated'
             /\ authenticated'
                  <=> \/ authenticated
                      \/ /\ \E q \in 1..Len(trace') : trace'[q] = WhoamiCmd
                         /\ session \/ machine_token = "valid"
             /\ \A p \in 1..Len(trace') :
                   IsDrush(trace'[p])
                      => (AuthCalled(trace', p)
                            <=> ~(\/ authenticated
                                  \/ /\ session \/ machine_token = "valid"
                                     /\ \E q \in 1..(DrushStart(trace', p) - 1) :
                                           trace'[q] = WhoamiCmd))]_vars

\* a command sent by a client whose flag an earlier call had set with the
\* token: no whoami and no login before it
C27_Witness ==
    /\ backend = "terminus" /\ machine_token = "valid"
    /\ authenticated /\ ncalls = 2
    /\ call.op = "add_tag_to_node"
    /\ trace # <<>> /\ IsDrush(trace[1])

----------------------------------------------------------------------------
(* C28 *)

\* the operations of a browser client that need a page
BrowserOps == {"create_draft_revision", "find_and_replace", "update_alt_text"}

\* the login of the step succeeded: authenticate() returned True, or an
\* operation that logs in only without the flag came out with the flag set
LoginSucceeded ==
    IF call'.op = "authenticate" THEN result'.value ELSE ~authenticated /\ authenticated'

\* C28: on the browser backend a set authenticated flag means that the
\* browser and page handles are set and that the current page is of the
\* browser session whose login succeeded; after close() the flag is false
\* and the handles are cleared, so that the next operation on a page logs
\* in again before it touches one.
C28_FlagMeansLoggedInPage ==
    [][backend = "playwright"
          => /\ authenticated'
                  => /\ browser' # 0 /\ page' = browser'
                     /\ browser' # browser => LoginSucceeded
             /\ call'.op = "close"
                  => ~authenticated' /\ browser' = 0 /\ page' = 0
             /\ (call.op = "close" /\ call'.op = "create_draft_revision")
                  => \/ trace' = <<>>
                     \/ trace'[1] = <<"browser", "launch">>]_vars

----------------------------------------------------------------------------
(* C29 *)

\* C29: create_draft_revision with k fields records all or nothing.  On
\* every path that records, it appends exactly k ChangeRecords, one per
\* field in the order of `changes`, all with the same success flag, reason,
\* target and error; on a remote-CLI success all carry the revision id and
\* URL of the result.  Successes and failures are never mixed.
C29_AllOrNothing ==
    (call.op = "create_draft_revision" /\ Appended # <<>>)
    => /\ Len(Appended) = Len(call.changes)
       /\ Returned
       /\ \A i \in 1..Len(Appended) :
             /\ Appended[i].field = call.changes[i][1]
             /\ Appended[i].new_value = call.changes[i][2]
             /\ Appended[i].operation = "update_node"
             /\ Appended[i].success = result.success
             /\ Appended[i].success = Appended[1].success
             /\ Appended[i].reason = Reason
             /\ Appended[i].target = NodeTarget(Nid)
             /\ Appended[i].error = Appended[1].error
             /\ Appended[i].revision_id = Appended[1].revision_id
             /\ Appended[i].revision_url = Appended[1].revision_url
             /\ (backend = "terminus" /\ result.success)
                   => /\ Appended[i].revision_id = result.revision_id
                      /\ Appended[i].revision_url = result.revision_url

\* two fields written through the remote CLI, one revision for both
C29_Witness ==
    /\ call.op = "create_draft_revision" /\ backend = "terminus"
    /\ Len(call.changes) = 2 /\ Len(Appended) = 2
    /\ result.success
    /\ Appended[1].field = "body" /\ Appended[2].field = "field_x"
    /\ Appended[2].revision_id = result.revision_id

\* two fields refused in the browser, a failure for each
C29_WitnessFailure ==
    /\ call.op = "create_draft_revision" /\ backend = "playwright"
    /\ Len(call.changes) = 2 /\ Len(Appended) = 2
    /\ ~result.success /\ ~Appended[1].success /\ ~Appended[2].success

----------------------------------------------------------------------------
(* C30 *)

\* the form element of the field was filled by the last invocation
WasFilled(field) ==
    \E p \in 1..Len(trace) :
        Len(trace[p]) = 3 /\ trace[p][1] = "fill" /\ trace[p][2] = field

\* C30: in the browser create_draft_revision appends a success record for a
\* field only if that field was filled on the form; a field for which no
\* selector matched is never recorded as successful.
C30_SuccessOnlyIfFilled ==
    (call.op = "create_draft_revision" /\ backend = "playwright")
    => \A i \in 1..Len(Appended) :
          Appended[i].success => WasFilled(Appended[i].field)

====
